---- MODULE Spec2Model ----
(***************************************************************************)
(* Belt resonance detection engine (Live-Belt-Tension).                    *)
(*                                                                         *)
(* Units.  Frequencies are integers in centi-Hz (the analyzer rounds peak  *)
(* frequencies to 0.01 Hz, headline values to 0.1 Hz).  Normalised peak    *)
(* powers are integers in 1e-4 (the analyzer rounds them to 4 decimals).   *)
(* SNR values are integers in 1e-4 (so power * 20 is exact).  Positions    *)
(* are integers.  Interpolated calibration frequencies are exact rationals *)
(* <<num, den>> with den > 0.  Python None is None (numeric fields) or     *)
(* NoneStr (string fields).  round(x, 1) is the set of nearest multiples:  *)
(* both neighbours on a decimal tie, whose float outcome depends on the    *)
(* binary representation.  In the pluck analyzers Q-factors and SNR values *)
(* are integers in 1e-1.                                                   *)
(***************************************************************************)
EXTENDS Integers, Sequences, FiniteSets, TLC

VARIABLES history, tuner, requests, gcode, panel,
          entry, capture, scans, calibration, pc, pos_data, structural_freqs,
          per_position, candidates, result, raised

vars == <<history, tuner, requests, gcode, panel,
          entry, capture, scans, calibration, pc, pos_data, structural_freqs,
          per_position, candidates, result, raised>>

None == -1
NoneStr == "None"

\* ------------------------------------------------------------ constants
CALIB_WINDOW == 1200
STRUCT_BIN == 400
REF_Y == 100
MIN_ROWS == 500
TOP_N == 15
MIN_SCANS == 2
SNR_HIGH == 150000
SNR_MEDIUM == 70000
SNR_LOW == 30000
SNR_PER_POWER == 20
MOBILITY_ABS == 1000
MOBILITY_NUM == 4
MOBILITY_DEN == 10
FREQ_STEP == 10
SNR_STEP == 1000
FREQ_MIN == 8500
DURATION_MIN == 500
WIDTH_MIN == 1000
V3_MIN_SAMPLES == 1000
V3_BAND_LO == 9000
PLUCK_MIN_SAMPLES == 512
TOP_CANDS == 5
DECAY_CANDS == 3
Q_SHARP == 100
Q_FAIR == 50
PLUCK_SNR_HIGH == 50
PLUCK_SNR_FAIR == 30
BELT_LO == 8000
BELT_HI == 14000
SCORE_HIGH == 6
SCORE_MEDIUM == 4
Q_EXCELLENT == 500
Q_HIGH == 200
Q_GOOD == 100

\* ------------------------------------------------------------ bounds
MaxScans == 2
MaxPeaks == 2
MaxCal == 2
MaxCands == 3
MaxMag == 4

\* ------------------------------------------------------------ helpers
Abs(x) == IF x < 0 THEN -x ELSE x

Range(s) == {s[i] : i \in 1..Len(s)}

\* Python round(x, 1) of a non-negative value x, in units where one decimal
\* is `step`; a tie yields either neighbour.
Round1(x, step) ==
    LET r == x % step
        lo == x - r
    IN  IF 2 * r < step THEN {lo}
        ELSE IF 2 * r > step THEN {lo + step}
        ELSE {lo, lo + step}

\* Index of the first least element of the key sequence (the element Python
\* min(s, key=...) returns).
ArgMinFirst(keys) ==
    CHOOSE i \in 1..Len(keys) :
        /\ \A j \in 1..Len(keys) : keys[i] <= keys[j]
        /\ \A j \in 1..(i - 1) : keys[j] > keys[i]

\* All sequences whose k-th element is drawn from sets[k].
RECURSIVE SeqProduct(_)
SeqProduct(sets) ==
    IF sets = <<>> THEN {<<>>}
    ELSE {<<h>> \o t : h \in Head(sets), t \in SeqProduct(Tail(sets))}

\* Stable insertion of x into the y-sorted sequence s, after equal keys.
RECURSIVE InsertByY(_, _)
InsertByY(x, s) ==
    IF s = <<>> THEN <<x>>
    ELSE IF x.y_pos < Head(s).y_pos THEN <<x>> \o s
    ELSE <<Head(s)>> \o InsertByY(x, Tail(s))

\* sorted(scans, key=lambda s: s['y_pos'])
RECURSIVE SortedByY(_)
SortedByY(s) ==
    IF s = <<>> THEN <<>>
    ELSE InsertByY(s[Len(s)], SortedByY(SubSeq(s, 1, Len(s) - 1)))

\* ------------------------------------------------------------ results
\* the mapping without its MEDIUM branch
ConfidenceNoMedium(snr) ==
    IF snr > SNR_HIGH THEN "HIGH"
    ELSE IF snr > SNR_LOW THEN "LOW"
    ELSE "UNRELIABLE"

\* a label that depends on whether an earlier call was made
ConfidenceRemembered(snr) ==
    IF history # <<>> THEN "LOW"
    ELSE IF snr > SNR_HIGH THEN "HIGH"
    ELSE IF snr > SNR_MEDIUM THEN "MEDIUM"
    ELSE IF snr > SNR_LOW THEN "LOW"
    ELSE "UNRELIABLE"

Confidence(snr) ==
    IF snr > SNR_HIGH THEN "HIGH"
    ELSE IF snr > SNR_MEDIUM THEN "MEDIUM"
    ELSE IF snr > SNR_LOW THEN "LOW"
    ELSE "UNRELIABLE"

\* a FAIL that labels the failure UNRELIABLE
SweepFailLabelled(msg) ==
    [frequency |-> None, confidence |-> "UNRELIABLE", q_factor |-> None,
     snr |-> None, sample_rate |-> None, error |-> msg]

\* FAIL of analyze_sweep_csv
SweepFail(msg) ==
    [frequency |-> None, confidence |-> NoneStr, q_factor |-> None,
     snr |-> None, sample_rate |-> None, error |-> msg]

\* FAIL of analyze_multi_position_sweep
MultiFail(msg) ==
    [frequency |-> None, confidence |-> NoneStr, q_factor |-> None,
     snr |-> None, sample_rate |-> None, error |-> msg,
     method |-> "multi_position", position_results |-> <<>>,
     peak_mobility |-> 0, classification |-> "structural_only"]

NoResult == [error |-> "pending"]

\* ------------------------------------------------------------ axis projection
\* The axis argument: whether the string is non-empty, whether every
\* comma-separated part parses as a float, and the parsed parts.
NoAxis == [given |-> FALSE, numeric |-> TRUE, parts |-> <<>>]

Axes ==
    {NoAxis, [given |-> TRUE, numeric |-> FALSE, parts |-> <<>>]}
    \cup {[given |-> TRUE, numeric |-> TRUE, parts |-> ps] :
            ps \in {<<1>>, <<0, 0>>, <<1, -1>>, <<1, 1>>, <<0, 1>>, <<1, 1, 0>>}}

\* the axis is parsed and has a positive norm: proj is not None
AxisActive(axis) ==
    /\ axis.given
    /\ axis.numeric
    /\ Len(axis.parts) >= 2
    /\ axis.parts[1] * axis.parts[1] + axis.parts[2] * axis.parts[2] > 0

\* mag = proj if proj is not None else np.sqrt(ax**2 + ay**2)
SignalUsed(axis) == IF AxisActive(axis) THEN "projection" ELSE "magnitude"

\* the axis the Moonraker component passes for belt A
DefaultAxis == [given |-> TRUE, numeric |-> TRUE, parts |-> <<1, 1>>]

\* ------------------------------------------------------------ capture files
\* A capture file as the loaders see it: whether it can be opened, whether its
\* first line is a header, how many well-formed data records and how many
\* malformed (non-numeric, three-column) lines follow, whether the median
\* timestamp step is zero.  A sweep capture adds what the spectrum of its
\* signal holds: whether the FFT grid has a bin in the band, whether the
\* spectrum is flat (all zero), the sample rate, the local maxima of the
\* in-band spectrum (frequency, normalised power; strongest first), the
\* largest bin of the in-band spectrum with its SNR (raw), and what step 4 of
\* analyze_sweep_csv works with under the axis and band of the call that
\* analyses the capture: the axis, the duration of the capture (1e-2 s), the
\* width of the band (1e-2 Hz), whether some spectrogram score is positive and
\* a bin lies within 5 Hz of the best-scored frequency (scored), and the
\* largest bin within 5 Hz of it with its SNR (tm).

\* lines that are neither comments nor blank nor data records
OtherLines(cap) == (IF cap.header THEN 1 ELSE 0) + cap.bad

\* _load_and_project: "none" for (None, None, None), "raise" when 1.0 / 0.0
\* raises ZeroDivisionError outside the try block, else "ok".
LoadAndProject(cap) ==
    IF ~cap.exists THEN "none"
    ELSE IF cap.rows < MIN_ROWS THEN "none"
    ELSE IF cap.dt0 THEN "raise"
    ELSE "ok"

\* results[:n]
TopN(s, n) == SubSeq(s, 1, IF Len(s) < n THEN Len(s) ELSE n)

\* _extract_peaks (called only on a capture whose load does not raise)
ExtractPeaks(cap, n) ==
    IF LoadAndProject(cap) = "none" THEN <<>>
    ELSE IF ~cap.band \/ cap.flat THEN <<>>
    ELSE TopN(cap.peaks, n)

\* step 4 with the time-matched bin whatever the axis, duration and band
SelectedBinAlwaysMatched(cap) == cap.tm

\* Step 4: the bin within 5 Hz of the best-scored spectrogram frequency when
\* the axis projection is active, the capture is longer than 5 s, the band is
\* wider than 10 Hz and some score is positive; else the largest bin.
SelectedBin(cap) ==
    IF /\ AxisActive(cap.axis)
       /\ cap.duration > DURATION_MIN
       /\ cap.width > WIDTH_MIN
       /\ cap.scored
    THEN cap.tm
    ELSE cap.raw

\* analyze_sweep_csv (called only on a capture whose load does not raise):
\* the set of results it can return (two only on a rounding tie of the SNR).
AnalyzeSweepCsv(cap) ==
    IF LoadAndProject(cap) = "none" THEN
        IF ~cap.exists THEN {SweepFail("ReadError")}
        ELSE IF cap.rows + OtherLines(cap) < MIN_ROWS THEN {SweepFail("InsufficientData")}
        ELSE {SweepFail("LoadFailed")}
    ELSE IF ~cap.band THEN {SweepFail("NoDataInBand")}
    ELSE {[frequency |-> SelectedBin(cap).f,
           confidence |-> Confidence(SelectedBin(cap).snr),
           q_factor |-> s,
           snr |-> s,
           sample_rate |-> cap.fs,
           error |-> NoneStr] : s \in Round1(SelectedBin(cap).snr, SNR_STEP)}

\* ------------------------------------------------------------ calibration
\* _interpolate_calibration: np.interp over points sorted ascending by y,
\* clamped outside the calibrated range; None for an empty calibration.
InterpolateCalibration(cal, y) ==
    IF cal = <<>> THEN <<None, 1>>
    ELSE IF y <= cal[1].y THEN <<cal[1].freq, 1>>
    ELSE IF y >= cal[Len(cal)].y THEN <<cal[Len(cal)].freq, 1>>
    ELSE LET k == CHOOSE i \in 1..(Len(cal) - 1) : cal[i].y <= y /\ y < cal[i + 1].y
             dy == cal[k + 1].y - cal[k].y
         IN  <<cal[k].freq * dy + (cal[k + 1].freq - cal[k].freq) * (y - cal[k].y), dy>>

\* abs(f - expected), times the denominator of expected
DistTimesDen(f, expected) == Abs(f * expected[2] - expected[1])

\* abs(f - expected) <= CALIB_WINDOW
InWindow(f, expected) == DistTimesDen(f, expected) <= CALIB_WINDOW * expected[2]

RatLess(a, b) == a[1] * b[2] < b[1] * a[2]

RatMax(S) == CHOOSE a \in S : \A b \in S : ~RatLess(a, b)

RatMin(S) == CHOOSE a \in S : \A b \in S : ~RatLess(b, a)

RatSub(a, b) == <<a[1] * b[2] - b[1] * a[2], a[2] * b[2]>>

\* ------------------------------------------------------------ multi-position stages
\* Stage 1: peaks and full single-position result at one scan.
PosDataAt(scan) ==
    {[y |-> scan.y_pos, peaks |-> ExtractPeaks(scan.file, TOP_N), full |-> r] :
        r \in AnalyzeSweepCsv(scan.file)}

\* frequencies of the peaks extracted at scan entry i
PeakFreqsAt(pd, i) == {pd[i].peaks[a].f : a \in 1..Len(pd[i].peaks)}

\* Stage 2: the loops over i, fi, j > i, fj add both members of every pair of
\* peaks of two different scan entries that lie within STRUCT_BIN.
StructuralFreqs(pd) ==
    UNION {{f \in PeakFreqsAt(pd, i) :
                \E j \in (1..Len(pd)) \ {i} :
                    \E g \in PeakFreqsAt(pd, j) : Abs(f - g) <= STRUCT_BIN} :
           i \in 1..Len(pd)}

\* not any(abs(f - sf) <= STRUCT_BIN for sf in structural_freqs)
NotNearStructural(f, sf) == \A s \in sf : Abs(f - s) > STRUCT_BIN

InWindowPeaks(peaks, expected) ==
    SelectSeq(peaks, LAMBDA pk : InWindow(pk.f, expected))

NonStruct(in_window, sf) ==
    SelectSeq(in_window, LAMBDA pk : NotNearStructural(pk.f, sf))

\* the whole window, structural peaks included
CandidatesNoExclusion(peaks, expected, sf) == InWindowPeaks(peaks, expected)

\* candidates = non_struct if non_struct else in_window
Candidates(peaks, expected, sf) ==
    LET in_window == InWindowPeaks(peaks, expected)
        non_struct == NonStruct(in_window, sf)
    IN  IF non_struct # <<>> THEN non_struct ELSE in_window

\* min(candidates, key=lambda x: abs(x[0] - expected))
Closest(cands, expected) ==
    cands[ArgMinFirst([i \in 1..Len(cands) |-> DistTimesDen(cands[i].f, expected)])]

\* Stage 3 at one position: the calibration-guided choice, else the
\* time-matched single-position result.
SelectAt(p, cal, sf) ==
    LET expected == InterpolateCalibration(cal, p.y)
        cands == IF cal # <<>> /\ p.peaks # <<>>
                 THEN Candidates(p.peaks, expected, sf) ELSE <<>>
    IN  IF cands # <<>> THEN
            LET best == Closest(cands, expected)
                estimated_snr == best.p * SNR_PER_POWER
            IN  {[y_pos |-> p.y, belt_freq |-> best.f, snr |-> s,
                  confidence |-> Confidence(estimated_snr),
                  full_result |-> p.full] : s \in Round1(estimated_snr, SNR_STEP)}
        ELSE {[y_pos |-> p.y, belt_freq |-> p.full.frequency, snr |-> p.full.snr,
               confidence |-> p.full.confidence, full_result |-> p.full]}

\* the first scanned position
ReportFirst(pp) == pp[1]

\* Stage 4: y100_list[0], else the first position nearest to Y=100.
Report(pp) ==
    IF \E i \in 1..Len(pp) : pp[i].y_pos = REF_Y
    THEN pp[CHOOSE i \in 1..Len(pp) :
                pp[i].y_pos = REF_Y /\ \A j \in 1..(i - 1) : pp[j].y_pos # REF_Y]
    ELSE pp[ArgMinFirst([i \in 1..Len(pp) |-> Abs(pp[i].y_pos - REF_Y)])]

\* _fallback_single_position
FallbackSinglePosition(single) ==
    LET best == single[ArgMinFirst([i \in 1..Len(single) |->
                                        Abs(single[i].y_pos - REF_Y)])].single
    IN  [frequency |-> best.frequency, confidence |-> best.confidence,
         q_factor |-> best.q_factor, snr |-> best.snr,
         sample_rate |-> best.sample_rate, error |-> best.error,
         method |-> "multi_position",
         position_results |->
            [i \in 1..Len(single) |->
                [y_pos |-> single[i].y_pos,
                 frequency |-> single[i].single.frequency,
                 confidence |-> single[i].single.confidence,
                 snr |-> single[i].single.snr]],
         peak_mobility |-> 0,
         classification |-> "structural_only"]

\* Stage 5: valid_freqs and the rounded mobility.
ValidFreqs(pp) == SelectSeq([i \in 1..Len(pp) |-> pp[i].belt_freq], LAMBDA f : f # None)

SetMax(S) == CHOOSE a \in S : \A b \in S : b <= a

SetMin(S) == CHOOSE a \in S : \A b \in S : a <= b

RawMobility(pp) ==
    LET vf == Range(ValidFreqs(pp))
    IN  SetMax(vf) - SetMin(vf)

Mobility(pp) ==
    IF Len(ValidFreqs(pp)) >= 2 THEN Round1(RawMobility(pp), FREQ_STEP) ELSE {0}

\* exp_mob over the scanned positions
ExpMob(cal, sc) ==
    LET ef == {InterpolateCalibration(cal, sc[i].y_pos) : i \in 1..Len(sc)}
    IN  RatSub(RatMax(ef), RatMin(ef))

\* mobility > exp_mob * 0.4
MoreThanShare(mobility, exp_mob) ==
    mobility * MOBILITY_DEN * exp_mob[2] > MOBILITY_NUM * exp_mob[1]

\* mobility >= exp_mob * 0.4
AtLeastShare(mobility, exp_mob) ==
    mobility * MOBILITY_DEN * exp_mob[2] >= MOBILITY_NUM * exp_mob[1]

Classify(mobility, cal, sc) ==
    IF cal # <<>> /\ Len(sc) >= MIN_SCANS
    THEN IF AtLeastShare(mobility, ExpMob(cal, sc)) THEN "belt" ELSE "ambiguous"
    ELSE IF mobility >= MOBILITY_ABS THEN "belt" ELSE "ambiguous"

\* sample_rate: the first non-zero sample rate among the full results
SampleRate(pd) ==
    IF \E i \in 1..Len(pd) : pd[i].full.sample_rate # None
    THEN pd[CHOOSE i \in 1..Len(pd) :
                /\ pd[i].full.sample_rate # None
                /\ \A j \in 1..(i - 1) : pd[j].full.sample_rate = None].full.sample_rate
    ELSE 0

PositionResults(pp) ==
    [i \in 1..Len(pp) |->
        [y_pos |-> pp[i].y_pos, frequency |-> pp[i].belt_freq,
         confidence |-> pp[i].confidence, snr |-> pp[i].snr]]

\* the dict returned at the end of analyze_multi_position_sweep
MultiResults(pp, pd, cal, sc) ==
    LET report == Report(pp)
    IN  {[frequency |-> f, confidence |-> report.confidence,
          q_factor |-> report.snr, snr |-> report.snr,
          sample_rate |-> SampleRate(pd), error |-> NoneStr,
          method |-> "multi_position",
          position_results |-> PositionResults(pp),
          peak_mobility |-> m,
          classification |-> Classify(m, cal, sc)] :
        f \in Round1(report.belt_freq, FREQ_STEP), m \in Mobility(pp)}

\* ------------------------------------------------------------ inputs
ScanYs == {80, 100, 110}
PeakFreqs == {8700, 9000, 9353}
TmFreqs == {9000, 10000}
TmSnrs == {150400, 50000}
SampleRates == {3200}
CalPoints == {[y |-> 90, freq |-> 9975], [y |-> 110, freq |-> 9100]}

\* find_peaks output is ranked by power; the power of the peak at rank r
RankPower(r) == IF r = 1 THEN 10000 ELSE IF r = 2 THEN 7501 ELSE 3000

\* ranked peak lists: at most MaxPeaks distinct frequencies, the lower the
\* stronger
PeakLists ==
    UNION {{[r \in 1..n |-> [f |-> fs[r], p |-> RankPower(r)]] :
                fs \in {g \in [1..n -> PeakFreqs] :
                            \A a \in 1..(n - 1) : g[a] < g[a + 1]}} :
           n \in 0..MaxPeaks}

MissingFile ==
    [exists |-> FALSE, header |-> FALSE, rows |-> 0, bad |-> 0, dt0 |-> FALSE,
     band |-> FALSE, flat |-> FALSE, fs |-> None, peaks |-> <<>>,
     tm |-> [f |-> None, snr |-> None], raw |-> [f |-> None, snr |-> None],
     axis |-> DefaultAxis, duration |-> 0, width |-> 5500, scored |-> FALSE]

\* a well-formed capture of a sweep with one header line
GoodCapture(pl, tf, ts) ==
    [exists |-> TRUE, header |-> TRUE, rows |-> MIN_ROWS, bad |-> 0, dt0 |-> FALSE,
     band |-> TRUE, flat |-> FALSE, fs |-> CHOOSE sr \in SampleRates : TRUE,
     peaks |-> pl, tm |-> [f |-> tf, snr |-> ts], raw |-> [f |-> tf, snr |-> ts],
     axis |-> DefaultAxis, duration |-> 2750, width |-> 5500, scored |-> TRUE]

\* captures that differ in their peak lists
PeakCaptures ==
    {GoodCapture(pl, 9000, 150400) : pl \in PeakLists} \cup {MissingFile}

\* captures without extracted peaks that differ in the time-matched result
TmCaptures ==
    {GoodCapture(<<>>, tf, ts) : tf \in TmFreqs, ts \in TmSnrs} \cup {MissingFile}

ScanListsOver(caps) ==
    UNION {[1..n -> [y_pos : ScanYs, file : caps]] : n \in 0..MaxScans}

\* calibration lists as _parse_calibration leaves them: sorted ascending by y
Calibrations ==
    UNION {{c \in [1..n -> CalPoints] :
                \A a \in 1..(n - 1) : c[a].y < c[a + 1].y} : n \in 0..MaxCal}

\* ------------------------------------------------------------ initial state
\* the component as __init__ leaves it
EMPTY_RESULT ==
    [frequency |-> None, confidence |-> NoneStr, q_factor |-> None, error |-> NoneStr]

\* _dyn_progress is None or 'i/n', here <<i, n>>
NoProgress == <<None, None>>

\* measure_lock is 0 when free, else the number of the request holding it
BeltTunerInit ==
    [status |-> [A |-> EMPTY_RESULT, B |-> EMPTY_RESULT],
     measuring |-> FALSE,
     measure_lock |-> 0,
     dyn_progress |-> NoProgress]

\* no call made yet, no request received, the frame of the call not yet filled
\* Panel.__init__: belt A selected, nothing saved, measure mode; the tune
\* actions row starts hidden, the buttons are sensitive, no worker thread runs
\* and no idle callback is queued.
PanelInit ==
    [current_belt |-> "A",
     measurements |-> [A |-> <<>>, B |-> <<>>],
     measuring |-> FALSE,
     tune_mode |-> FALSE,
     last_tune_result |-> None,
     tune_actions |-> FALSE,
     buttons |-> TRUE,
     worker |-> "idle",
     callbacks |-> <<>>,
     popup |-> "none"]

Idle ==
    /\ history = <<>>
    /\ tuner = BeltTunerInit
    /\ requests = <<>>
    /\ gcode = <<>>
    /\ panel = PanelInit
    /\ pc = "start"
    /\ pos_data = <<>>
    /\ structural_freqs = {}
    /\ per_position = <<>>
    /\ candidates = <<>>
    /\ result = NoResult
    /\ raised = FALSE

\* ------------------------------------------------------------ analyze_multi_position_sweep
InitMulti ==
    /\ entry = "multi"
    /\ capture = MissingFile
    /\ scans \in ScanListsOver(PeakCaptures) \cup ScanListsOver(TmCaptures)
    /\ calibration \in Calibrations
    /\ Idle

\* The whole call: the scan-count check, the sort, stages 1 to 5.  An
\* exception of the loader escapes the call (raised).
AnalyzeMultiPositionSweep ==
    /\ entry = "multi" /\ pc = "start"
    /\ pc' = "done"
    /\ UNCHANGED <<history, tuner, requests, gcode, panel>>
    /\ UNCHANGED <<entry, capture, calibration, candidates>>
    /\ IF Len(scans) < MIN_SCANS
       THEN /\ result' = MultiFail("TooFewScans")
            /\ UNCHANGED <<scans, pos_data, structural_freqs, per_position, raised>>
       ELSE LET sc == SortedByY(scans)
            IN  /\ scans' = sc
                /\ IF \E i \in 1..Len(sc) : LoadAndProject(sc[i].file) = "raise"
                   THEN /\ raised' = TRUE
                        /\ UNCHANGED <<pos_data, structural_freqs, per_position, result>>
                   ELSE \E pd \in SeqProduct([i \in 1..Len(sc) |-> PosDataAt(sc[i])]) :
                        \E sf \in {StructuralFreqs(pd)} :
                        \E pp \in SeqProduct([i \in 1..Len(pd) |->
                                    SelectAt(pd[i], calibration, sf)]) :
                            /\ pos_data' = pd
                            /\ structural_freqs' = sf
                            /\ per_position' = pp
                            /\ raised' = FALSE
                            /\ IF Report(pp).belt_freq = None
                               THEN result' = FallbackSinglePosition(
                                        [i \in 1..Len(pp) |->
                                            [y_pos |-> pp[i].y_pos,
                                             single |-> pp[i].full_result]])
                               ELSE result' \in MultiResults(pp, pd, calibration, sc)

NextMulti == AnalyzeMultiPositionSweep

SpecMulti == InitMulti /\ [][NextMulti]_vars

\* ------------------------------------------------------------ analyze_sweep_csv as an entry point
\* The call: an exception of the loader escapes it (raised).
AnalyzeSweepCsvCall ==
    /\ entry = "sweep" /\ pc = "start"
    /\ pc' = "done"
    /\ UNCHANGED <<history, tuner, requests, gcode, panel>>
    /\ UNCHANGED <<entry, capture, scans, calibration, pos_data, structural_freqs,
                   per_position, candidates>>
    /\ IF LoadAndProject(capture) = "raise"
       THEN raised' = TRUE /\ UNCHANGED result
       ELSE raised' = FALSE /\ result' \in AnalyzeSweepCsv(capture)

\* ------------------------------------------------------------ pluck analyzers
\* A pluck capture adds to the file description: whether at least 512 samples
\* follow the trigger offset, whether the spectrum has a bin in the belt band,
\* the frequency and Q-factor the V3 pipeline arrives at, and the peaks
\* find_peaks reports (frequency, SNR, Q-factor, and the magnitudes of the
\* peak's bin in the three thirds of the signal), strongest first.

\* a dict that holds only 'error' (and non-numeric or count extras)
PluckFail(msg) ==
    [frequency |-> None, confidence |-> NoneStr, q_factor |-> None,
     snr |-> None, sample_rate |-> None, error |-> msg]

\* np.genfromtxt(filepath, delimiter=',', skip_header=1): None when the
\* file cannot be read (an exception), else the number of rows of the array.  The first
\* line is dropped whether it is a header or a data record; a malformed
\* three-column line becomes a row of NaN.
GenFromTxt(cap) ==
    IF ~cap.exists THEN None
    ELSE LET total == OtherLines(cap) + cap.rows
         IN  IF total = 0 THEN 0 ELSE total - 1

\* a timestamp of the array is NaN
NanTimes(cap) == cap.bad > 0

V3Confidence(q) ==
    IF q > Q_EXCELLENT THEN "EXCELLENT"
    ELSE IF q > Q_HIGH THEN "HIGH"
    ELSE IF q > Q_GOOD THEN "GOOD"
    ELSE "LOW"

\* analyze_pluck_event: every exception is caught and returned as an error.
AnalyzePluckEventResult(cap) ==
    IF GenFromTxt(cap) = None THEN PluckFail("Exception")
    ELSE IF GenFromTxt(cap) < V3_MIN_SAMPLES THEN PluckFail("InsufficientData")
    ELSE IF NanTimes(cap) THEN PluckFail("Exception")
    ELSE IF ~cap.after_ok THEN PluckFail("InsufficientAfterTrigger")
    ELSE IF ~cap.band THEN PluckFail("NoDataInBand")
    ELSE [frequency |-> cap.v3.f, confidence |-> V3Confidence(cap.v3.q),
          q_factor |-> cap.v3.q, snr |-> None, sample_rate |-> cap.fs,
          error |-> NoneStr]

AnalyzePluckEvent ==
    /\ entry = "pluck_event" /\ pc = "start"
    /\ pc' = "done"
    /\ UNCHANGED <<history, tuner, requests, gcode, panel>>
    /\ result' = AnalyzePluckEventResult(capture)
    /\ UNCHANGED <<entry, capture, scans, calibration, pos_data, structural_freqs,
                   per_position, candidates, raised>>

\* decay_profile[0] > decay_profile[1] > decay_profile[2]
IsDecaying(profile) == profile[1] > profile[2] /\ profile[2] > profile[3]

\* a decay profile for every one of the five strongest peaks
PluckCandidatesAllDecay(cap) ==
    LET top == TopN(cap.cands, TOP_CANDS)
    IN  [i \in 1..Len(top) |->
            [freq |-> top[i].freq, snr |-> top[i].snr, q_factor |-> top[i].q_factor,
             has_decay |-> TRUE,
             is_decaying |-> IsDecaying(top[i].decay)]]

\* steps 7 and 8: the five strongest peaks; the first three get a decay
\* profile and is_decaying
PluckCandidates(cap) ==
    LET top == TopN(cap.cands, TOP_CANDS)
    IN  [i \in 1..Len(top) |->
            [freq |-> top[i].freq, snr |-> top[i].snr, q_factor |-> top[i].q_factor,
             has_decay |-> i <= DECAY_CANDS,
             is_decaying |-> i <= DECAY_CANDS /\ IsDecaying(top[i].decay)]]

\* `if` where the code has `elif`
PluckScoreNoElif(c) ==
    (IF c.q_factor > Q_SHARP THEN 3 ELSE 0)
    + (IF c.q_factor > Q_FAIR THEN 1 ELSE 0)
    + (IF c.snr > PLUCK_SNR_HIGH THEN 2 ELSE 0)
    + (IF c.snr > PLUCK_SNR_FAIR THEN 1 ELSE 0)
    + (IF c.has_decay /\ c.is_decaying THEN 3 ELSE 0)
    + (IF BELT_LO <= c.freq /\ c.freq <= BELT_HI THEN 2 ELSE 0)

\* step 9: the score of one candidate
PluckScore(c) ==
    (IF c.q_factor > Q_SHARP THEN 3 ELSE IF c.q_factor > Q_FAIR THEN 1 ELSE 0)
    + (IF c.snr > PLUCK_SNR_HIGH THEN 2 ELSE IF c.snr > PLUCK_SNR_FAIR THEN 1 ELSE 0)
    + (IF c.has_decay /\ c.is_decaying THEN 3 ELSE 0)
    + (IF BELT_LO <= c.freq /\ c.freq <= BELT_HI THEN 2 ELSE 0)

Scored(cs) ==
    [i \in 1..Len(cs) |->
        [freq |-> cs[i].freq, snr |-> cs[i].snr, q_factor |-> cs[i].q_factor,
         has_decay |-> cs[i].has_decay, is_decaying |-> cs[i].is_decaying,
         score |-> PluckScore(cs[i])]]

\* insertion before equal keys: a sort that reverses ties
RECURSIVE InsertByScoreBeforeEqual(_, _)
InsertByScoreBeforeEqual(x, s) ==
    IF s = <<>> THEN <<x>>
    ELSE IF x.score >= Head(s).score THEN <<x>> \o s
    ELSE <<Head(s)>> \o InsertByScoreBeforeEqual(x, Tail(s))

\* Stable insertion of x into the sequence s sorted by descending score,
\* after equal keys.
RECURSIVE InsertByScore(_, _)
InsertByScore(x, s) ==
    IF s = <<>> THEN <<x>>
    ELSE IF x.score > Head(s).score THEN <<x>> \o s
    ELSE <<Head(s)>> \o InsertByScore(x, Tail(s))

\* candidates.sort(key=lambda x: x['score'], reverse=True)
RECURSIVE SortedByScore(_)
SortedByScore(s) ==
    IF s = <<>> THEN <<>>
    ELSE InsertByScore(s[Len(s)], SortedByScore(SubSeq(s, 1, Len(s) - 1)))

PluckConfidence(score) ==
    IF score >= SCORE_HIGH THEN "HIGH"
    ELSE IF score >= SCORE_MEDIUM THEN "MEDIUM"
    ELSE "LOW"

\* the sorted candidate list of a capture that reaches step 9
RankedCandidates(cap) == SortedByScore(Scored(PluckCandidates(cap)))

\* analyze_pluck: every exception is caught and returned as an error.
AnalyzePluckResult(cap) ==
    IF GenFromTxt(cap) = None THEN PluckFail("Exception")
    ELSE IF GenFromTxt(cap) < PLUCK_MIN_SAMPLES THEN PluckFail("InsufficientData")
    ELSE IF NanTimes(cap) \/ ~cap.band THEN PluckFail("NoDataInBand")
    ELSE IF cap.flat \/ cap.cands = <<>> THEN PluckFail("NoPeaks")
    ELSE LET best == RankedCandidates(cap)[1]
         IN  [frequency |-> best.freq, snr |-> best.snr, q_factor |-> best.q_factor,
              confidence |-> PluckConfidence(best.score), score |-> best.score,
              is_decaying |-> best.has_decay /\ best.is_decaying,
              sample_rate |-> cap.fs, error |-> NoneStr]

AnalyzePluck ==
    /\ entry = "pluck" /\ pc = "start"
    /\ pc' = "done"
    /\ UNCHANGED <<history, tuner, requests, gcode, panel>>
    /\ result' = AnalyzePluckResult(capture)
    /\ candidates' = IF AnalyzePluckResult(capture).error = NoneStr
                     THEN RankedCandidates(capture) ELSE <<>>
    /\ UNCHANGED <<entry, capture, scans, calibration, pos_data, structural_freqs,
                   per_position, raised>>

\* ------------------------------------------------------------ pluck inputs
DecayProfiles == {<<3, 2, 1>>, <<2, 2, 1>>}

\* a peak of every combination of values around the scoring thresholds
ThresholdPeaks ==
    [freq : {BELT_LO - 1, BELT_LO, BELT_HI, BELT_HI + 1},
     snr : {PLUCK_SNR_FAIR, PLUCK_SNR_FAIR + 1, PLUCK_SNR_HIGH, PLUCK_SNR_HIGH + 1},
     q_factor : {Q_FAIR, Q_FAIR + 1, Q_SHARP, Q_SHARP + 1},
     decay : DecayProfiles]

\* the SNR of the peak of rank r: the weaker the peak, the lower
RankSnr(r) == PLUCK_SNR_HIGH + 2 - r

\* the frequency of the peak of rank r, inside or outside the 80..140 Hz range
RankFreq(r, inside) == (IF inside THEN 9000 ELSE 15000) + 600 * r

\* ranked peak lists of at most MaxCands peaks
RankedPeakLists ==
    UNION {{[r \in 1..n |-> [freq |-> RankFreq(r, k[r].inside), snr |-> RankSnr(r),
                             q_factor |-> k[r].q, decay |-> k[r].decay]] :
                k \in [1..n -> [inside : BOOLEAN, q : {Q_FAIR + 1, Q_SHARP + 1},
                                decay : DecayProfiles]]} :
           n \in 0..MaxCands}

GoodPluck(cs) ==
    [exists |-> TRUE, header |-> TRUE, rows |-> V3_MIN_SAMPLES, bad |-> 0,
     dt0 |-> FALSE, band |-> TRUE, flat |-> FALSE, after_ok |-> TRUE,
     fs |-> CHOOSE sr \in SampleRates : TRUE,
     v3 |-> [f |-> 11000, q |-> 250], cands |-> cs]

PluckCaptures ==
    {GoodPluck(<<c>>) : c \in ThresholdPeaks} \cup {GoodPluck(cs) : cs \in RankedPeakLists}

\* ranked lists of up to MaxRanked sharp in-range peaks that differ in decay
MaxRanked == 6

DecayPeakLists ==
    UNION {{[r \in 1..n |-> [freq |-> RankFreq(r, TRUE), snr |-> RankSnr(r),
                             q_factor |-> Q_SHARP + 1, decay |-> k[r]]] :
                k \in [1..n -> DecayProfiles]} :
           n \in 1..MaxRanked}

InitDecay ==
    /\ entry = "pluck"
    /\ capture \in {GoodPluck(cs) : cs \in DecayPeakLists}
    /\ scans = <<>>
    /\ calibration = <<>>
    /\ Idle

NextDecay == AnalyzePluck

SpecDecay == InitDecay /\ [][NextDecay]_vars

InitPluck ==
    /\ entry = "pluck"
    /\ capture \in PluckCaptures
    /\ scans = <<>>
    /\ calibration = <<>>
    /\ Idle

NextPluck == AnalyzePluck

SpecPluck == InitPluck /\ [][NextPluck]_vars

\* ------------------------------------------------------------ degenerate inputs
RowCounts ==
    {0, 10, MIN_ROWS - 1, MIN_ROWS, PLUCK_MIN_SAMPLES - 1, PLUCK_MIN_SAMPLES,
     V3_MIN_SAMPLES - 1, V3_MIN_SAMPLES}

\* what the signal of a capture can be like
SignalKinds == {"normal", "dt0", "noband", "flat"}

\* a sweep capture of the given file shape and signal; the spectrum of a flat
\* signal is zero, its bin of largest power the first bin of the band
SweepCapture(header, rows, bad, kind) ==
    [exists |-> TRUE, header |-> header, rows |-> rows, bad |-> bad,
     dt0 |-> kind = "dt0", band |-> kind # "noband", flat |-> kind = "flat",
     fs |-> CHOOSE sr \in SampleRates : TRUE,
     peaks |-> IF kind = "flat" THEN <<>> ELSE <<[f |-> 9000, p |-> 10000]>>,
     tm |-> IF kind = "flat" THEN [f |-> FREQ_MIN, snr |-> 0]
            ELSE [f |-> 9000, snr |-> 150400],
     raw |-> IF kind = "flat" THEN [f |-> FREQ_MIN, snr |-> 0]
             ELSE [f |-> 9000, snr |-> 150400],
     axis |-> DefaultAxis, duration |-> 2750, width |-> 5500,
     scored |-> kind # "flat"]

LoadSweepCaptures ==
    {SweepCapture(h, r, b, k) :
        h \in BOOLEAN, r \in RowCounts, b \in {0, 1}, k \in SignalKinds}
    \cup {MissingFile}

\* the sweep captures scanned positions are drawn from
PositionCaptures ==
    {SweepCapture(TRUE, MIN_ROWS - 1, 0, "normal"), SweepCapture(FALSE, 10, 0, "normal"),
     SweepCapture(TRUE, MIN_ROWS, 0, "dt0"), SweepCapture(TRUE, MIN_ROWS, 0, "noband"),
     SweepCapture(TRUE, MIN_ROWS, 0, "flat"), SweepCapture(TRUE, MIN_ROWS, 0, "normal"),
     MissingFile}

\* a pluck capture of the given file shape and signal; the V3 pipeline finds
\* the first bin of its band and Q = 0 in a flat spectrum
PluckCapture(header, rows, bad, kind, after_ok) ==
    [exists |-> TRUE, header |-> header, rows |-> rows, bad |-> bad,
     dt0 |-> kind = "dt0", band |-> kind # "noband", flat |-> kind = "flat",
     after_ok |-> after_ok, fs |-> CHOOSE sr \in SampleRates : TRUE,
     v3 |-> IF kind = "flat" THEN [f |-> V3_BAND_LO, q |-> 0]
            ELSE [f |-> 11000, q |-> 250],
     cands |-> IF kind = "flat" THEN <<>>
               ELSE <<[freq |-> 11000, snr |-> PLUCK_SNR_HIGH + 1,
                       q_factor |-> Q_SHARP + 1, decay |-> <<3, 2, 1>>]>>]

MissingPluckFile ==
    [exists |-> FALSE, header |-> FALSE, rows |-> 0, bad |-> 0, dt0 |-> FALSE,
     band |-> FALSE, flat |-> FALSE, after_ok |-> FALSE, fs |-> None,
     v3 |-> [f |-> None, q |-> None], cands |-> <<>>]

LoadPluckCaptures ==
    {PluckCapture(h, r, b, k, a) :
        h \in BOOLEAN, r \in RowCounts, b \in {0, 1}, k \in SignalKinds, a \in BOOLEAN}
    \cup {MissingPluckFile}

InitLoad ==
    /\ entry \in {"sweep", "multi", "pluck_event", "pluck"}
    /\ IF entry = "multi"
       THEN /\ capture = MissingFile
            /\ scans \in ScanListsOver(PositionCaptures)
            /\ calibration \in Calibrations
       ELSE /\ capture \in (IF entry = "sweep" THEN LoadSweepCaptures
                            ELSE LoadPluckCaptures)
            /\ scans = <<>>
            /\ calibration = <<>>
    /\ Idle

NextLoad ==
    \/ AnalyzeSweepCsvCall
    \/ AnalyzeMultiPositionSweep
    \/ AnalyzePluckEvent
    \/ AnalyzePluck

SpecLoad == InitLoad /\ [][NextLoad]_vars

\* ------------------------------------------------------------ confidence inputs
\* SNR values of the selected bin on and next to the label thresholds
ThresholdSnrs == {SNR_LOW, SNR_LOW + 400, SNR_MEDIUM + 400, SNR_HIGH + 400, SNR_HIGH + 600}

\* captures whose selected bin or single extracted peak sits near a threshold
SnrCaptures ==
    {GoodCapture(<<>>, 9000, s) : s \in ThresholdSnrs}
    \cup {GoodCapture(<<[f |-> 9000, p |-> 7501]>>, 9000, SNR_HIGH + 600),
          GoodCapture(<<[f |-> 9353, p |-> 3502]>>, 9000, SNR_HIGH + 600)}

InitConfidence ==
    /\ entry \in {"sweep", "multi"}
    /\ IF entry = "multi"
       THEN /\ capture = MissingFile
            /\ scans \in ScanListsOver(SnrCaptures)
            /\ calibration \in Calibrations
       ELSE /\ capture \in SnrCaptures
            /\ scans = <<>>
            /\ calibration = <<>>
    /\ Idle

NextConfidence ==
    \/ AnalyzeSweepCsvCall
    \/ AnalyzeMultiPositionSweep

SpecConfidence == InitConfidence /\ [][NextConfidence]_vars

\* ------------------------------------------------------------ parabolic refinement
\* The three magnitudes around the peak bin are non-negative integers; the
\* offset delta (in bins) is an exact rational <<num, den>>, den # 0.  An
\* outcome is "refined" with its delta, "unrefined" (the bin frequency is
\* returned as it is), or "nonfinite" (a float division by zero: nan or inf).
Unrefined == [kind |-> "unrefined", delta |-> <<0, 1>>]

Refined(num, den) == [kind |-> "refined", delta |-> <<num, den>>]

NonFinite == [kind |-> "nonfinite", delta |-> <<0, 1>>]

\* belt_analyzer_v3.parabolic_interpolation: delta = 0.5 * (y1 - y3) / denom
ParabolicV3(t) ==
    IF t.edge THEN Unrefined
    ELSE LET denom == t.y1 - 2 * t.y2 + t.y3
         IN  IF denom = 0 THEN Unrefined
             ELSE Refined(t.y1 - t.y3, 2 * denom)

\* belt_analyzer_v2.parabolic_interpolation: the same formula, no test of the
\* denominator
ParabolicV2(t) ==
    IF t.edge THEN Unrefined
    ELSE LET denom == t.y1 - 2 * t.y2 + t.y3
         IN  IF denom = 0 THEN NonFinite
             ELSE Refined(t.y1 - t.y3, 2 * denom)

\* the offset with the neighbours exchanged
ParabolicSweepMirrored(t) ==
    IF t.edge THEN Unrefined
    ELSE LET denom == 2 * (2 * t.y2 - t.y1 - t.y3)
         IN  IF denom = 0 THEN Unrefined
             ELSE Refined(t.y1 - t.y3, denom)

\* analyze_sweep_csv step 5 and _extract_peaks: with (y0, y1, y2) the three
\* magnitudes, delta = (y2 - y0) / (2 * (2*y1 - y0 - y2))
ParabolicSweep(t) ==
    IF t.edge THEN Unrefined
    ELSE LET denom == 2 * (2 * t.y2 - t.y1 - t.y3)
         IN  IF denom = 0 THEN Unrefined
             ELSE Refined(t.y3 - t.y1, denom)

\* the magnitudes around a bin, or a bin at the edge of the spectrum
Triples == [y1 : 0..MaxMag, y2 : 0..MaxMag, y3 : 0..MaxMag, edge : BOOLEAN]

InitParabolic ==
    /\ entry = "parabolic"
    /\ capture \in Triples
    /\ scans = <<>>
    /\ calibration = <<>>
    /\ Idle

\* the three refinements applied to the same bin
ParabolicInterpolation ==
    /\ entry = "parabolic" /\ pc = "start"
    /\ pc' = "done"
    /\ UNCHANGED <<history, tuner, requests, gcode, panel>>
    /\ result' = [v3 |-> ParabolicV3(capture), v2 |-> ParabolicV2(capture),
                  sweep |-> ParabolicSweep(capture), error |-> NoneStr]
    /\ UNCHANGED <<entry, capture, scans, calibration, pos_data, structural_freqs,
                   per_position, candidates, raised>>

NextParabolic == ParabolicInterpolation

SpecParabolic == InitParabolic /\ [][NextParabolic]_vars

\* ------------------------------------------------------------ Q-factor
\* The spectrum around a peak as the Q-factor functions see it: the number of
\* bins above half power and the distance (centi-Hz) between the first and
\* the last of them.  A Q-factor is an exact rational <<num, den>>.

\* belt_analyzer_v3.calculate_q_factor
QFactorV3(freq, sp) ==
    IF sp.above < 2 THEN <<0, 1>>
    ELSE IF sp.bandwidth = 0 THEN <<0, 1>>
    ELSE <<freq, sp.bandwidth>>

\* belt_analyzer_v2.calculate_q_factor_bandwidth
QFactorV2(freq, sp) ==
    IF sp.above < 2 THEN <<0, 1>>
    ELSE IF sp.bandwidth = 0 THEN <<0, 1>>
    ELSE <<freq, sp.bandwidth>>

\* calculate_q_factor inside belt_pluck_detector.analyze_pluck
QFactorPluck(freq, sp) ==
    IF sp.above < 2 THEN <<0, 1>>
    ELSE IF sp.bandwidth = 0 THEN <<0, 1>>
    ELSE <<freq, sp.bandwidth>>

\* spectra with none, one or more bins above half power
HalfPowerSpectra ==
    {sp \in [above : 0..3, bandwidth : {0, 50, 100}] :
        (sp.above < 2 => sp.bandwidth = 0)}

CalculateQFactor ==
    /\ entry = "q_factor" /\ pc = "start"
    /\ pc' = "done"
    /\ UNCHANGED <<history, tuner, requests, gcode, panel>>
    /\ result' = [v3 |-> QFactorV3(capture.freq, capture.sp),
                  v2 |-> QFactorV2(capture.freq, capture.sp),
                  pluck |-> QFactorPluck(capture.freq, capture.sp),
                  error |-> NoneStr]
    /\ UNCHANGED <<entry, capture, scans, calibration, pos_data, structural_freqs,
                   per_position, candidates, raised>>

\* ------------------------------------------------------------ projection step
ProjectSignal ==
    /\ entry = "projection" /\ pc = "start"
    /\ pc' = "done"
    /\ UNCHANGED <<history, tuner, requests, gcode, panel>>
    /\ result' = [signal |-> SignalUsed(capture), error |-> NoneStr]
    /\ UNCHANGED <<entry, capture, scans, calibration, pos_data, structural_freqs,
                   per_position, candidates, raised>>

\* ------------------------------------------------------------ numerically degenerate steps
InitSteps ==
    /\ entry \in {"parabolic", "q_factor", "projection"}
    /\ capture \in (IF entry = "parabolic" THEN Triples
                    ELSE IF entry = "q_factor"
                         THEN [freq : {9000, 11000}, sp : HalfPowerSpectra]
                         ELSE Axes)
    /\ scans = <<>>
    /\ calibration = <<>>
    /\ Idle

NextSteps ==
    \/ ParabolicInterpolation
    \/ CalculateQFactor
    \/ ProjectSignal

SpecSteps == InitSteps /\ [][NextSteps]_vars

\* ------------------------------------------------------------ harmonic-filtered analysis
\* analyze_belt_frequency_improved.  Magnitudes are plain integers, the harmonic
\* ratios are in 1e-2, the consistency confidence is in 1e-2.
WEB_MIN_ROWS == 500
WEB_BAND_LO == 5000
WEB_BAND_HI == 20000
THRESHOLD_FACTOR == 3
HARMONIC_TOL == 500
KEEP_NUM == 8
KEEP_DEN == 10
JUMP_LARGE == 2000
JUMP_SMALL == 1000

MaxWebPeaks == 2

\* ratios = [0.5, 2.0, 3.0, 0.33, 1.5]
HARMONIC_RATIOS == <<50, 200, 300, 33, 150>>

WebNone == [frequency |-> None, magnitude |-> None, confidence |-> None,
            snr |-> <<0, 1>>, num_peaks |-> 0, error |-> "none"]

\* peak detection over the whole spectrum
DetectedPeaksAnyBand(cap) ==
    SelectSeq(cap.tones, LAMBDA t : t.mag >= THRESHOLD_FACTOR * cap.noise)

\* Steps 3-5: the local maxima of the 50-200 Hz slice of the spectrum that
\* reach three times the noise floor, in ascending frequency.
DetectedPeaks(cap) ==
    SelectSeq(cap.tones, LAMBDA t : /\ t.freq >= WEB_BAND_LO
                                    /\ t.freq <= WEB_BAND_HI
                                    /\ t.mag >= THRESHOLD_FACTOR * cap.noise)

\* the harmonic test without its magnitude condition
HarmonicIgnoringMagnitude(p, q) ==
    \E k \in 1..Len(HARMONIC_RATIOS) :
        Abs(100 * p.freq - q.freq * HARMONIC_RATIOS[k]) < 100 * HARMONIC_TOL

\* the harmonic test that also discards a peak as strong as the other
HarmonicOfNoWeakerPeak(p, q) ==
    \E k \in 1..Len(HARMONIC_RATIOS) :
        /\ Abs(100 * p.freq - q.freq * HARMONIC_RATIOS[k]) < 100 * HARMONIC_TOL
        /\ p.mag <= q.mag

\* abs(freq - other_freq * ratio) < 5 and peak_mags[i] < peak_mags[j] * 0.8
HarmonicOfAnyRatio(p, q) ==
    \E k \in 1..Len(HARMONIC_RATIOS) :
        /\ Abs(100 * p.freq - q.freq * HARMONIC_RATIOS[k]) < 100 * HARMONIC_TOL
        /\ KEEP_DEN * p.mag < KEEP_NUM * q.mag

IsHarmonic(peaks, i) ==
    \E j \in 1..Len(peaks) : j # i /\ HarmonicOfAnyRatio(peaks[i], peaks[j])

\* Step 6: the peaks that are no harmonic of a stronger peak, in detection order
ValidPeaks(peaks) ==
    LET Keep(k) == ~IsHarmonic(peaks, k)
        RECURSIVE From(_)
        From(k) == IF k > Len(peaks) THEN <<>>
                   ELSE IF Keep(k) THEN <<peaks[k]>> \o From(k + 1)
                   ELSE From(k + 1)
    IN From(1)

RECURSIVE InsertByMag(_, _)
InsertByMag(x, s) ==
    IF s = <<>> THEN <<x>>
    ELSE IF x.mag > Head(s).mag THEN <<x>> \o s
    ELSE <<Head(s)>> \o InsertByMag(x, Tail(s))

\* valid_peaks.sort(key=lambda x: x[1], reverse=True)
RECURSIVE SortedByMag(_)
SortedByMag(s) ==
    IF s = <<>> THEN <<>>
    ELSE InsertByMag(s[Len(s)], SortedByMag(SubSeq(s, 1, Len(s) - 1)))

\* Step 8: consistency with the previous measurement
JumpConfidence(best_freq, previous_freq) ==
    IF previous_freq = None THEN 100
    ELSE IF Abs(best_freq - previous_freq) > JUMP_LARGE THEN 50
    ELSE IF Abs(best_freq - previous_freq) > JUMP_SMALL THEN 75
    ELSE 100

WebValidPeaks(cap) ==
    IF cap.rows < WEB_MIN_ROWS THEN <<>>
    ELSE SortedByMag(ValidPeaks(DetectedPeaks(cap)))

AnalyzeBeltFrequencyImprovedResult(cap) ==
    LET valid_peaks == WebValidPeaks(cap)
    IN  IF valid_peaks = <<>> THEN WebNone
        ELSE [frequency |-> valid_peaks[1].freq,
              magnitude |-> valid_peaks[1].mag,
              confidence |-> JumpConfidence(valid_peaks[1].freq, cap.previous_freq),
              snr |-> <<valid_peaks[1].mag, cap.noise>>,
              num_peaks |-> Len(valid_peaks),
              error |-> NoneStr]

AnalyzeBeltFrequencyImproved ==
    /\ entry = "web" /\ pc = "start"
    /\ pc' = "done"
    /\ UNCHANGED <<history, tuner, requests, gcode, panel>>
    /\ candidates' = WebValidPeaks(capture)
    /\ result' = AnalyzeBeltFrequencyImprovedResult(capture)
    /\ UNCHANGED <<entry, capture, scans, calibration, pos_data, structural_freqs,
                   per_position, raised>>

\* spectra: tones in ascending frequency, at least 5 Hz apart
WebFreqs == {3500, 6000, 9000, 10500, 12000, 12400, 12500, 18000, 21000}

WebMags == {2, 7, 10, 11}

WebTones == [freq : WebFreqs, mag : WebMags]

\* tone t may follow the tones of s: higher by at least 5 Hz
Ascending(s, t) == s = <<>> \/ t.freq - s[Len(s)].freq >= HARMONIC_TOL

RECURSIVE ToneListsOfLen(_)
ToneListsOfLen(n) ==
    IF n = 0 THEN {<<>>}
    ELSE {Append(s, t) : <<s, t>> \in
            {x \in ToneListsOfLen(n - 1) \X WebTones : Ascending(x[1], x[2])}}

ToneLists == UNION {ToneListsOfLen(n) : n \in 0..MaxWebPeaks}

WebCaptures ==
    [rows : {WEB_MIN_ROWS}, tones : ToneLists, noise : {1, 3},
     previous_freq : {None, 10500}]
    \cup [rows : {WEB_MIN_ROWS - 1}, tones : {<<[freq |-> 10500, mag |-> 10]>>},
          noise : {1}, previous_freq : {None}]

InitWeb ==
    /\ entry = "web"
    /\ capture \in WebCaptures
    /\ scans = <<>>
    /\ calibration = <<>>
    /\ Idle

NextWeb == AnalyzeBeltFrequencyImproved

SpecWeb == InitWeb /\ [][NextWeb]_vars

\* ------------------------------------------------------------ repeated calls
\* A process that calls the analysis entry points one after the other, as the
\* Moonraker component does across requests.  history records every returned
\* call: its arguments, what it returned and whether an exception escaped it.
MaxCalls == 2

SessionSweepFile == GoodCapture(<<>>, 9000, 150400)

SessionPeakFile == GoodCapture(<<[f |-> 9353, p |-> 10000]>>, 10000, 50000)

SessionCalls ==
    [entry : {"sweep"}, capture : {MissingFile, SessionSweepFile, SessionPeakFile},
     scans : {<<>>}, calibration : {<<>>}]
    \cup [entry : {"multi"}, capture : {MissingFile},
          scans : {<<[y_pos |-> 100, file |-> SessionSweepFile]>>,
                   <<[y_pos |-> 110, file |-> SessionSweepFile],
                     [y_pos |-> 100, file |-> SessionPeakFile]>>,
                   <<[y_pos |-> 80, file |-> SessionPeakFile],
                     [y_pos |-> 100, file |-> SessionPeakFile]>>},
          calibration : {<<>>, <<[y |-> 90, freq |-> 9975]>>}]
    \cup [entry : {"pluck_event"},
          capture : {MissingPluckFile, GoodPluck(<<>>),
                     PluckCapture(TRUE, V3_MIN_SAMPLES, 0, "flat", TRUE)},
          scans : {<<>>}, calibration : {<<>>}]

InitSession ==
    /\ \E c \in SessionCalls :
        /\ entry = c.entry
        /\ capture = c.capture
        /\ scans = c.scans
        /\ calibration = c.calibration
    /\ Idle

\* The call returns, its frame is dropped, and the caller makes the next call
\* with arguments of its choice.  The scan list recorded is the caller's: the
\* call sorts a copy.
NextCall ==
    /\ pc = "done"
    /\ Len(history) < MaxCalls
    /\ history' = Append(history,
                         [entry |-> entry, capture |-> capture, scans |-> scans,
                          calibration |-> calibration, result |-> result,
                          raised |-> raised])
    /\ \E c \in SessionCalls :
        /\ entry' = c.entry
        /\ capture' = c.capture
        /\ scans' = c.scans
        /\ calibration' = c.calibration
    /\ pc' = "start"
    /\ pos_data' = <<>>
    /\ structural_freqs' = {}
    /\ per_position' = <<>>
    /\ candidates' = <<>>
    /\ result' = NoResult
    /\ raised' = FALSE
    /\ UNCHANGED <<tuner, requests, gcode, panel>>

NextSession ==
    \/ AnalyzeSweepCsvCall
    \/ AnalyzeMultiPositionSweep
    \/ AnalyzePluckEvent
    \/ NextCall

SpecSession == InitSession /\ [][NextSession]_vars

\* ------------------------------------------------------------ Moonraker component
\* The three measurement endpoints of BeltTuner run on one asyncio event loop:
\* the code between two awaits is one step.  requests lists the requests
\* received, each with its endpoint, belt, number of scan positions n, the
\* position k being scanned, where its handler is (pc: "excite" awaiting the
\* first G-code of a position, "capture" awaiting the second G-code of a pluck
\* measurement, "analyze" awaiting the analyzer, "returned") and the HTTP code
\* it returned (0 while running).  gcode lists the requests whose handler
\* issued a G-code command, in order.
MaxReq == 2

Endpoints == {"measure", "motion_measure", "motion_measure_dynamic"}

Belts == {"A", "B", "C"}

\* lengths of the y_positions list of a dynamic request
PositionCounts == {0, 2}

GoodResult ==
    [frequency |-> 11000, confidence |-> "HIGH", q_factor |-> 250, error |-> NoneStr]

\* error_result: EMPTY_RESULT with 'error' set
ErrorResult(msg) == [EMPTY_RESULT EXCEPT !.error = msg]

\* what the analyzers hand back to _do_measure and its siblings
AnalyzerResults == {GoodResult, ErrorResult("AnalysisError")}

\* a lock test that never sees the lock held
LockedNever(t) == FALSE

\* self._measure_lock.locked()
Locked(t) == t.measure_lock # 0

\* a release without the finally clause: the flags stay as they are
ReleasedWithoutFinally(t, req, res) ==
    [t EXCEPT !.status[req.belt] = res, !.measure_lock = 0]

\* the finally clause of the handler and the release of the lock
Released(t, req, res) ==
    [t EXCEPT !.status[req.belt] = res,
              !.measuring = FALSE,
              !.measure_lock = 0,
              !.dyn_progress = IF req.endpoint = "motion_measure_dynamic"
                               THEN NoProgress ELSE @]

\* A request arrives: its handler runs to its first await or to its return.
HandleRequest ==
    \E ep \in Endpoints, belt \in Belts, numeric \in BOOLEAN, n \in PositionCounts :
        LET id == Len(requests) + 1
            dyn == ep = "motion_measure_dynamic"
            Returned(code) == [endpoint |-> ep, belt |-> belt, n |-> n, k |-> 1,
                               pc |-> "returned", code |-> code]
        IN  /\ entry = "moonraker"
            /\ id <= MaxReq
            /\ dyn \/ (numeric /\ n = 0)
            /\ UNCHANGED <<panel, history, entry, capture, scans, calibration, pc, pos_data,
                           structural_freqs, per_position, candidates, result, raised>>
            /\ IF dyn /\ ~numeric
               THEN \* float(y) raises before the belt is looked at
                    /\ requests' = Append(requests, Returned(500))
                    /\ UNCHANGED <<tuner, gcode>>
               ELSE IF belt \notin {"A", "B"}
               THEN /\ requests' = Append(requests, Returned(400))
                    /\ UNCHANGED <<tuner, gcode>>
               ELSE IF Locked(tuner)
               THEN /\ requests' = Append(requests, Returned(503))
                    /\ UNCHANGED <<tuner, gcode>>
               ELSE /\ tuner' =
                        [tuner EXCEPT
                            !.measure_lock = id,
                            !.measuring = TRUE,
                            !.status[belt].error =
                                IF ep = "measure" THEN NoneStr ELSE @,
                            !.dyn_progress =
                                IF dyn THEN (IF n > 0 THEN <<1, n>> ELSE NoProgress)
                                ELSE @]
                    /\ gcode' = IF dyn /\ n = 0 THEN gcode ELSE Append(gcode, id)
                    /\ requests' = Append(requests,
                            [endpoint |-> ep, belt |-> belt, n |-> n, k |-> 1,
                             pc |-> IF dyn /\ n = 0 THEN "analyze" ELSE "excite",
                             code |-> 0])

\* run_gcode returns and the handler runs to its next await or to its return
GcodeDone ==
    \E i \in 1..Len(requests), found \in BOOLEAN :
        LET req == requests[i]
        IN  /\ entry = "moonraker"
            /\ req.pc \in {"excite", "capture"}
            /\ UNCHANGED <<panel, history, entry, capture, scans, calibration, pc, pos_data,
                           structural_freqs, per_position, candidates, result, raised>>
            /\ IF req.endpoint = "measure" /\ req.pc = "excite"
               THEN /\ found
                    /\ gcode' = Append(gcode, i)
                    /\ requests' = [requests EXCEPT ![i].pc = "capture"]
                    /\ UNCHANGED tuner
               ELSE IF req.endpoint # "motion_measure_dynamic"
               THEN /\ found
                    /\ requests' = [requests EXCEPT ![i].pc = "analyze"]
                    /\ UNCHANGED <<tuner, gcode>>
               ELSE IF ~found
               THEN \* _find_csv returns None: an error result is returned
                    /\ tuner' = Released(tuner, req, ErrorResult("NoCsv"))
                    /\ requests' = [requests EXCEPT ![i].pc = "returned",
                                                    ![i].code = 200]
                    /\ UNCHANGED gcode
               ELSE IF req.k < req.n
               THEN /\ tuner' = [tuner EXCEPT !.dyn_progress = <<req.k + 1, req.n>>]
                    /\ gcode' = Append(gcode, i)
                    /\ requests' = [requests EXCEPT ![i].k = req.k + 1]
               ELSE /\ requests' = [requests EXCEPT ![i].pc = "analyze"]
                    /\ UNCHANGED <<tuner, gcode>>

\* the analyzer returns its dict: it is stored and returned
AnalyzerReturns ==
    \E i \in 1..Len(requests), res \in AnalyzerResults :
        /\ entry = "moonraker"
        /\ requests[i].pc = "analyze"
        /\ tuner' = Released(tuner, requests[i], res)
        /\ requests' = [requests EXCEPT ![i].pc = "returned", ![i].code = 200]
        /\ UNCHANGED <<panel, history, gcode, entry, capture, scans, calibration, pc, pos_data,
                       structural_freqs, per_position, candidates, result, raised>>

\* run_gcode or the analyzer raises: the except and finally clauses run
CycleRaises ==
    \E i \in 1..Len(requests) :
        /\ entry = "moonraker"
        /\ requests[i].pc \in {"excite", "capture", "analyze"}
        /\ tuner' = Released(tuner, requests[i], ErrorResult("Exception"))
        /\ requests' = [requests EXCEPT ![i].pc = "returned", ![i].code = 500]
        /\ UNCHANGED <<panel, history, gcode, entry, capture, scans, calibration, pc, pos_data,
                       structural_freqs, per_position, candidates, result, raised>>

\* the belts a clear request for belt b resets
ClearedBy(b) == IF b \in {"A", "B"} THEN {b} ELSE {"A", "B"}

\* the status after _handle_clear: one belt, or both when the belt is neither
\* A nor B
Cleared(t, belt) ==
    [t EXCEPT !.status = [b \in {"A", "B"} |->
                            IF b \in ClearedBy(belt) THEN EMPTY_RESULT ELSE @[b]]]

\* _handle_clear
HandleClear ==
    \E belt \in Belts :
        /\ entry = "moonraker"
        /\ tuner' = Cleared(tuner, belt)
        /\ UNCHANGED <<panel, history, requests, gcode, entry, capture, scans, calibration,
                       pc, pos_data, structural_freqs, per_position, candidates, result,
                       raised>>

\* the number of measurement requests that had arrived when the last clear
\* request for belt b was served, None when there was none
ClearedAt(h, b) == IF h = <<>> THEN None ELSE h[b]

\* _handle_clear, with the history recording when each belt was last cleared
HandleClearLogged ==
    \E belt \in Belts :
        /\ entry = "moonraker"
        /\ tuner' = Cleared(tuner, belt)
        /\ history' = [b \in {"A", "B"} |->
                            IF b \in ClearedBy(belt) THEN Len(requests)
                            ELSE ClearedAt(history, b)]
        /\ UNCHANGED <<panel, requests, gcode, entry, capture, scans, calibration, pc,
                       pos_data, structural_freqs, per_position, candidates, result,
                       raised>>

InitMoonraker ==
    /\ entry = "moonraker"
    /\ capture = MissingFile
    /\ scans = <<>>
    /\ calibration = <<>>
    /\ Idle

NextMoonraker ==
    \/ HandleRequest
    \/ GcodeDone
    \/ AnalyzerReturns
    \/ CycleRaises
    \/ HandleClear

SpecMoonraker == InitMoonraker /\ [][NextMoonraker]_vars

\* the same handlers with the clear requests logged
NextClear ==
    \/ HandleRequest
    \/ GcodeDone
    \/ AnalyzerReturns
    \/ CycleRaises
    \/ HandleClearLogged

SpecClear == InitMoonraker /\ [][NextClear]_vars

\* ------------------------------------------------------------ step-4 inputs
\* Captures whose largest bin (125.0 Hz) differs from the time-matched bin
\* (110.0 Hz), analysed under each axis and band width, with long and short
\* durations, with and without a positive score, with no extracted peak or a
\* peak at 93.53 Hz.
SelectionAxes == {NoAxis, DefaultAxis, [given |-> TRUE, numeric |-> TRUE, parts |-> <<0, 0>>]}

SelectionWidths == {WIDTH_MIN, 5500}

SelectionFiles(axis, width) ==
    {[GoodCapture(pl, 11000, 150400) EXCEPT
            !.raw = [f |-> 12500, snr |-> 250400],
            !.axis = axis, !.width = width,
            !.duration = ds[1], !.scored = ds[2]] :
        pl \in {<<>>, <<[f |-> 9353, p |-> 10000]>>},
        ds \in {<<2750, TRUE>>, <<DURATION_MIN, TRUE>>, <<2750, FALSE>>}}

\* every scan of a call is analysed under the call's axis and band
SelectionScans ==
    UNION {UNION {[1..n -> [y_pos : {80, 100}, file : SelectionFiles(axis, width)]] :
                    n \in 0..MaxScans} :
           axis \in SelectionAxes, width \in SelectionWidths}

InitSelection ==
    /\ entry = "multi"
    /\ capture = MissingFile
    /\ scans \in SelectionScans
    /\ calibration \in {<<>>, <<[y |-> 90, freq |-> 9975]>>}
    /\ Idle

NextSelection == AnalyzeMultiPositionSweep

SpecSelection == InitSelection /\ [][NextSelection]_vars

\* ------------------------------------------------------------ Q-factor of a spectrum
\* The in-band spectrum is a grid of MaxBins bins, BIN_STEP apart from
\* GRID_LO, with integer magnitudes.  m > p / sqrt(2) is 2 m^2 > p^2 for
\* non-negative m and p.
MaxBins == 4
GRID_LO == 9000
BIN_STEP == 50

GridFreqs == [k \in 1..MaxBins |-> GRID_LO + (k - 1) * BIN_STEP]

\* magnitudes > half_power
AboveHalf(mags, peak_mag) ==
    {k \in 1..Len(mags) : 2 * mags[k] * mags[k] > peak_mag * peak_mag}

\* the span between the first two bins above half power
HalfPowerFirstTwo(freqs, mags, peak_mag) ==
    LET above == AboveHalf(mags, peak_mag)
        lo == SetMin(above)
    IN  [above |-> Cardinality(above),
         bandwidth |-> IF Cardinality(above) < 2 THEN 0
                       ELSE freqs[SetMin(above \ {lo})] - freqs[lo]]

\* np.sum(above_half) and freqs[indices[-1]] - freqs[indices[0]]
HalfPower(freqs, mags, peak_mag) ==
    LET above == AboveHalf(mags, peak_mag)
    IN  [above |-> Cardinality(above),
         bandwidth |-> IF above = {} THEN 0
                       ELSE freqs[SetMax(above)] - freqs[SetMin(above)]]

\* peak_idx = np.argmin(np.abs(freqs - freq))
NearestBin(freqs, freq) == ArgMinFirst([k \in 1..Len(freqs) |-> Abs(freqs[k] - freq)])

\* V3: the candidate magnitude is that of the bin nearest to the frequency
QFactorOfSpectrumV3(freq, freqs, mags) ==
    QFactorV3(freq, HalfPower(freqs, mags, mags[NearestBin(freqs, freq)]))

\* pluck detector: the candidate magnitude is passed in
QFactorOfSpectrumPluck(freq, mag, freqs, mags) ==
    QFactorPluck(freq, HalfPower(freqs, mags, mag))

\* a candidate on a bin or between two bins
CandidateFreqs == {GridFreqs[k] : k \in 1..MaxBins} \cup {GRID_LO + 20}

InitQ ==
    /\ entry = "q_spectrum"
    /\ capture \in [freq : CandidateFreqs, mags : [1..MaxBins -> 0..MaxMag]]
    /\ scans = <<>>
    /\ calibration = <<>>
    /\ Idle

CalculateQFactorOfSpectrum ==
    /\ entry = "q_spectrum" /\ pc = "start"
    /\ pc' = "done"
    /\ UNCHANGED <<history, tuner, requests, gcode, panel>>
    /\ result' = [v3 |-> QFactorOfSpectrumV3(capture.freq, GridFreqs, capture.mags),
                  pluck |-> QFactorOfSpectrumPluck(
                                capture.freq,
                                capture.mags[NearestBin(GridFreqs, capture.freq)],
                                GridFreqs, capture.mags),
                  error |-> NoneStr]
    /\ UNCHANGED <<entry, capture, scans, calibration, pos_data, structural_freqs,
                   per_position, candidates, raised>>

NextQ == CalculateQFactorOfSpectrum

SpecQ == InitQ /\ [][NextQ]_vars

\* ------------------------------------------------------------ working signal
\* A buffer of MaxSamples (ax, ay) samples with integer values whose norms are
\* integers.  With N samples, the sweep loader's signal is kept multiplied by
\* N (magnitude) or by N * norm of the axis (projection); the pluck detector's
\* magnitude is kept as its square multiplied by N^2.
MaxSamples == 2

SamplePairs == {<<0, 0>>, <<3, 4>>, <<4, 3>>, <<0, 5>>, <<-3, 4>>}

\* the integer square root of a perfect square
Sqrt(n) == CHOOSE r \in 0..n : r * r = n

RECURSIVE SeqSum(_)
SeqSum(s) == IF s = <<>> THEN 0 ELSE Head(s) + SeqSum(Tail(s))

\* x - np.mean(x), multiplied by the number of samples
Centred(x) == [i \in 1..Len(x) |-> Len(x) * x[i] - SeqSum(x)]

\* np.sqrt(ax**2 + ay**2), then mag - np.mean(mag)
SweepMagnitude(buf) ==
    Centred([i \in 1..Len(buf) |->
                Sqrt(buf[i][1] * buf[i][1] + buf[i][2] * buf[i][2])])

\* (ax * nx + ay * ny) / norm, then mag - np.mean(mag)
SweepProjection(buf, axis) ==
    Centred([i \in 1..Len(buf) |->
                buf[i][1] * axis.parts[1] + buf[i][2] * axis.parts[2]])

\* belt_pluck_detector steps 1 and 2: both axes centred, then the magnitude
PluckMagnitudeSquared(buf) ==
    LET cx == Centred([i \in 1..Len(buf) |-> buf[i][1]])
        cy == Centred([i \in 1..Len(buf) |-> buf[i][2]])
    IN  [i \in 1..Len(buf) |-> cx[i] * cx[i] + cy[i] * cy[i]]

InitSignal ==
    /\ entry = "signal"
    /\ capture \in [axis : Axes, buf : [1..MaxSamples -> SamplePairs]]
    /\ scans = <<>>
    /\ calibration = <<>>
    /\ Idle

\* the signal _load_and_project and analyze_pluck derive from the same buffer
DeriveSignal ==
    /\ entry = "signal" /\ pc = "start"
    /\ pc' = "done"
    /\ UNCHANGED <<history, tuner, requests, gcode, panel>>
    /\ result' = [signal |-> SignalUsed(capture.axis),
                  sweep |-> IF AxisActive(capture.axis)
                            THEN SweepProjection(capture.buf, capture.axis)
                            ELSE SweepMagnitude(capture.buf),
                  pluck_sq |-> PluckMagnitudeSquared(capture.buf),
                  error |-> NoneStr]
    /\ UNCHANGED <<entry, capture, scans, calibration, pos_data, structural_freqs,
                   per_position, candidates, raised>>

NextSignal == DeriveSignal

SpecSignal == InitSignal /\ [][NextSignal]_vars

\* ------------------------------------------------------------ analysis window after the trigger
\* A buffer of n samples at an integer sample rate fs (Hz) with the trigger at
\* index t.  A window is its first index and its length; NoWindow stands for
\* the 'Insufficient data after trigger' return.
WINDOW_MIN == 512

NoWindow == [start |-> None, length |-> None, error |-> "InsufficientAfterTrigger"]

Min2(a, b) == IF a < b THEN a ELSE b

\* int(0.05 * sample_rate)
SkipV3(fs) == (5 * fs) \div 100

\* int(0.02 * sample_rate)
SkipV2(fs) == (2 * fs) \div 100

\* the V3 window with an end that is not truncated to the buffer
WindowV3Untruncated(t, fs, n) ==
    LET start_idx == t + SkipV3(fs)
        end_idx == start_idx + fs
    IN  IF end_idx - start_idx < WINDOW_MIN THEN NoWindow
        ELSE [start |-> start_idx, length |-> end_idx - start_idx, error |-> NoneStr]

\* belt_analyzer_v3 step 4
WindowV3(t, fs, n) ==
    LET start_idx == t + SkipV3(fs)
        end_idx == Min2(start_idx + fs, n)
    IN  IF end_idx - start_idx < WINDOW_MIN THEN NoWindow
        ELSE [start |-> start_idx, length |-> end_idx - start_idx, error |-> NoneStr]

\* belt_analyzer_v2 step 4
WindowV2(t, fs, n) ==
    LET start_idx == t + SkipV2(fs)
        window_samples == Min2(fs, n - start_idx)
    IN  IF window_samples < WINDOW_MIN THEN NoWindow
        ELSE [start |-> start_idx, length |-> window_samples, error |-> NoneStr]

BufferSizes == {1000, 1600, 4000}

WindowRates == {400, 1600, 3200}

\* triggers at the ends of the buffer and around the last index that leaves
\* 512 samples after the offset
TriggersOf(n, fs) ==
    {t \in {0, n - 1} \cup {n - SkipV3(fs) - k : k \in {0, 1, 511, 512, 513}}
            \cup {n - SkipV2(fs) - k : k \in {0, 511, 512, 513}} :
        0 <= t /\ t < n}

InitWindow ==
    /\ entry = "window"
    /\ \E n \in BufferSizes, fs \in WindowRates :
        capture \in [n : {n}, fs : {fs}, t : TriggersOf(n, fs)]
    /\ scans = <<>>
    /\ calibration = <<>>
    /\ Idle

ExtractWindow ==
    /\ entry = "window" /\ pc = "start"
    /\ pc' = "done"
    /\ UNCHANGED <<history, tuner, requests, gcode, panel>>
    /\ result' = [v3 |-> WindowV3(capture.t, capture.fs, capture.n),
                  v2 |-> WindowV2(capture.t, capture.fs, capture.n),
                  error |-> NoneStr]
    /\ UNCHANGED <<entry, capture, scans, calibration, pos_data, structural_freqs,
                   per_position, candidates, raised>>

NextWindow == ExtractWindow

SpecWindow == InitWindow /\ [][NextWindow]_vars

\* ------------------------------------------------------------ KlipperScreen panel
\* The panel's handlers run on the GTK main loop; measurement_worker runs on
\* its own thread and hands its callbacks to the main loop with idle_add.
\* Scan mode is never entered.  A button is pressed only while it is shown and
\* sensitive.
MAX_MEASUREMENTS == 5

MaxSaved == 6

\* idle callbacks waiting for the main loop
MaxQueued == 3

PanelBelts == {"A", "B"}

\* what analyze_pluck_event returns for a good pluck, as the panel uses it
PanelResult == 11000

MeasurementBoxes == 0..4

\* _reset_tune_display
ResetTuneDisplay(p) == [p EXCEPT !.tune_actions = FALSE, !.last_tune_result = None]

\* start_measurement
StartMeasurementBody(p) ==
    IF p.measuring THEN p
    ELSE IF ~p.tune_mode /\ Len(p.measurements[p.current_belt]) >= MAX_MEASUREMENTS
    THEN [p EXCEPT !.popup = "max_reached"]
    ELSE [p EXCEPT !.measuring = TRUE, !.buttons = FALSE, !.worker = "running"]

\* toggle_tune_mode with scan mode off
ToggleTuneModeBody(p) ==
    IF p.measuring THEN p
    ELSE IF ~p.tune_mode
    THEN ResetTuneDisplay([p EXCEPT !.tune_mode = TRUE])
    ELSE [p EXCEPT !.tune_mode = FALSE, !.tune_actions = FALSE,
                   !.last_tune_result = None]

\* tune_save_and_exit
TuneSaveAndExitBody(p) ==
    ToggleTuneModeBody(
        IF p.last_tune_result # None
        THEN [p EXCEPT !.measurements[p.current_belt] = Append(@, p.last_tune_result)]
        ELSE p)

\* list.pop(index), index counted from 0
PopAt(s, index) == [i \in 1..(Len(s) - 1) |-> IF i <= index THEN s[i] ELSE s[i + 1]]

StartMeasurement ==
    /\ entry = "panel" /\ panel.buttons
    /\ panel' = StartMeasurementBody(panel)
    /\ panel' # panel
    /\ UNCHANGED <<history, tuner, requests, gcode>>
    /\ UNCHANGED <<entry, capture, scans, calibration, pc, pos_data, structural_freqs,
                   per_position, candidates, result, raised>>

SwitchBelt ==
    /\ entry = "panel" /\ panel.buttons
    /\ \E belt \in PanelBelts :
        panel' = IF panel.measuring THEN panel
                 ELSE IF panel.tune_mode
                 THEN ResetTuneDisplay([panel EXCEPT !.current_belt = belt])
                 ELSE [panel EXCEPT !.current_belt = belt]
    /\ panel' # panel
    /\ UNCHANGED <<history, tuner, requests, gcode>>
    /\ UNCHANGED <<entry, capture, scans, calibration, pc, pos_data, structural_freqs,
                   per_position, candidates, result, raised>>

ToggleTuneMode ==
    /\ entry = "panel" /\ panel.buttons
    /\ panel' = ToggleTuneModeBody(panel)
    /\ panel' # panel
    /\ UNCHANGED <<history, tuner, requests, gcode>>
    /\ UNCHANGED <<entry, capture, scans, calibration, pc, pos_data, structural_freqs,
                   per_position, candidates, result, raised>>

\* the Again button of the tune actions row
TuneAgain ==
    /\ entry = "panel" /\ panel.tune_actions
    /\ panel' = StartMeasurementBody(ResetTuneDisplay(panel))
    /\ UNCHANGED <<history, tuner, requests, gcode>>
    /\ UNCHANGED <<entry, capture, scans, calibration, pc, pos_data, structural_freqs,
                   per_position, candidates, result, raised>>

\* the Save & Exit button of the tune actions row
TuneSaveAndExit ==
    /\ entry = "panel" /\ panel.tune_actions
    /\ Len(panel.measurements[panel.current_belt]) < MaxSaved
    /\ panel' = TuneSaveAndExitBody(panel)
    /\ UNCHANGED <<history, tuner, requests, gcode>>
    /\ UNCHANGED <<entry, capture, scans, calibration, pc, pos_data, structural_freqs,
                   per_position, candidates, result, raised>>

\* a tap on a measurement box of the measure-mode grid, answered Clear
OnMeasurementClicked ==
    /\ entry = "panel" /\ ~panel.tune_mode
    /\ \E index \in MeasurementBoxes :
        /\ ~panel.measuring
        /\ index < Len(panel.measurements[panel.current_belt])
        /\ panel' = [panel EXCEPT !.measurements[panel.current_belt] = PopAt(@, index)]
    /\ UNCHANGED <<history, tuner, requests, gcode>>
    /\ UNCHANGED <<entry, capture, scans, calibration, pc, pos_data, structural_freqs,
                   per_position, candidates, result, raised>>

\* the Clear All button of the measure actions row
ClearMeasurements ==
    /\ entry = "panel" /\ ~panel.tune_mode
    /\ panel.measurements[panel.current_belt] # <<>>
    /\ panel' = [panel EXCEPT !.measurements[panel.current_belt] = <<>>]
    /\ UNCHANGED <<history, tuner, requests, gcode>>
    /\ UNCHANGED <<entry, capture, scans, calibration, pc, pos_data, structural_freqs,
                   per_position, candidates, result, raised>>

\* measurement_worker up to its finally clause: the result is saved or kept
\* as the last tune result, or the failure is reported
WorkerStores ==
    /\ entry = "panel" /\ panel.worker = "running"
    /\ Len(panel.callbacks) < MaxQueued
    /\ \E ok \in BOOLEAN :
        panel' =
            IF ~ok
            THEN [panel EXCEPT !.worker = "stored",
                               !.callbacks = Append(@, "measurement_failed")]
            ELSE IF ~panel.tune_mode
            THEN [panel EXCEPT !.worker = "stored",
                               !.measurements[panel.current_belt] = Append(@, PanelResult),
                               !.callbacks = Append(@, "measurement_complete")]
            ELSE [panel EXCEPT !.worker = "stored",
                               !.last_tune_result = PanelResult,
                               !.callbacks = Append(@, "measurement_complete")]
    /\ UNCHANGED <<history, tuner, requests, gcode>>
    /\ UNCHANGED <<entry, capture, scans, calibration, pc, pos_data, structural_freqs,
                   per_position, candidates, result, raised>>

\* the finally clause of measurement_worker
WorkerExits ==
    /\ entry = "panel" /\ panel.worker = "stored"
    /\ Len(panel.callbacks) <= MaxQueued
    /\ panel' = [panel EXCEPT !.worker = "idle", !.measuring = FALSE,
                              !.callbacks = Append(@, "enable_buttons")]
    /\ UNCHANGED <<history, tuner, requests, gcode>>
    /\ UNCHANGED <<entry, capture, scans, calibration, pc, pos_data, structural_freqs,
                   per_position, candidates, result, raised>>

\* the main loop runs the oldest idle callback
RunCallback ==
    /\ entry = "panel" /\ panel.callbacks # <<>>
    /\ LET cb == Head(panel.callbacks)
           rest == [panel EXCEPT !.callbacks = Tail(@)]
       IN  panel' =
            IF cb = "measurement_complete"
            THEN (IF panel.tune_mode THEN [rest EXCEPT !.tune_actions = TRUE] ELSE rest)
            ELSE IF cb = "measurement_failed"
            THEN [rest EXCEPT !.popup = "failed"]
            ELSE [rest EXCEPT !.buttons = TRUE]
    /\ UNCHANGED <<history, tuner, requests, gcode>>
    /\ UNCHANGED <<entry, capture, scans, calibration, pc, pos_data, structural_freqs,
                   per_position, candidates, result, raised>>

InitPanel ==
    /\ entry = "panel"
    /\ capture = MissingFile
    /\ scans = <<>>
    /\ calibration = <<>>
    /\ Idle

NextPanel ==
    \/ StartMeasurement
    \/ SwitchBelt
    \/ ToggleTuneMode
    \/ TuneAgain
    \/ TuneSaveAndExit
    \/ OnMeasurementClicked
    \/ ClearMeasurements
    \/ WorkerStores
    \/ WorkerExits
    \/ RunCallback

SpecPanel == InitPanel /\ [][NextPanel]_vars

\* ------------------------------------------------------------ peak bin and its refinement
\* The zero-padded spectrum on a grid of RefineStep centi-Hz whose bin 0 is the
\* first bin of the band.  The estimate (the time-matched spectrogram
\* frequency of the sweep analyzer, the Welch frequency of V3) lies on bin
\* est; the magnitudes of the five bins around it are free, every other bin
\* is 0.
REFINE_HZ == 500
RefineStep == 500
RefineBandLo == 9000
RefineBandHi == 14000

BandBins == 0..((RefineBandHi - RefineBandLo) \div RefineStep)

BinFreq(i) == RefineBandLo + i * RefineStep

SpectrumAt(cap, i) == IF i - cap.est \in -2..2 THEN cap.mags[i - cap.est] ELSE 0

\* np.argmax over the bins S: the first of the largest
ArgMaxBin(cap, S) ==
    CHOOSE i \in S : \A j \in S :
        /\ SpectrumAt(cap, j) <= SpectrumAt(cap, i)
        /\ SpectrumAt(cap, j) = SpectrumAt(cap, i) => i <= j

\* the in-band bins within 5 Hz of the estimate
SearchWindow(cap) ==
    {i \in BandBins : Abs(BinFreq(i) - BinFreq(cap.est)) <= REFINE_HZ}

TripleAt(cap, i, edge) ==
    [y1 |-> SpectrumAt(cap, i - 1), y2 |-> SpectrumAt(cap, i),
     y3 |-> SpectrumAt(cap, i + 1), edge |-> edge]

\* analyze_sweep_csv step 4: the raw maximum of the band, replaced by the
\* maximum of the search window when the time-matched estimate exists
SweepPeakBin(cap) ==
    IF cap.time_matched THEN ArgMaxBin(cap, SearchWindow(cap))
    ELSE ArgMaxBin(cap, BandBins)

\* analyze_sweep_csv step 5 on the band-masked arrays
SweepRefinement(cap) ==
    LET i == SweepPeakBin(cap)
        last == CHOOSE b \in BandBins : \A c \in BandBins : c <= b
    IN  [bin |-> i, refinement |-> ParabolicSweep(TripleAt(cap, i, i = 0 \/ i = last))]

\* analyze_pluck_event steps 9 and 10: the index is one of the whole spectrum,
\* whose first and last bin are far from the band
V3Refinement(cap) ==
    LET i == ArgMaxBin(cap, SearchWindow(cap))
    IN  [bin |-> i, refinement |-> ParabolicV3(TripleAt(cap, i, FALSE))]

\* freqs[peak_idx] + delta * freq_step as a rational with a positive
\* denominator
RefinedFrequency(r) ==
    LET num == r.refinement.delta[1]
        den == r.refinement.delta[2]
        f == <<BinFreq(r.bin) * den + num * RefineStep, den>>
    IN  IF den < 0 THEN <<-f[1], -f[2]>> ELSE f

EstimateBins == {0, 4, 10}

InitRefine ==
    /\ entry = "refine"
    /\ capture \in [est : EstimateBins, mags : [-2..2 -> 0..MaxMag],
                    time_matched : BOOLEAN]
    /\ scans = <<>>
    /\ calibration = <<>>
    /\ Idle

SelectAndRefine ==
    /\ entry = "refine" /\ pc = "start"
    /\ pc' = "done"
    /\ UNCHANGED <<history, tuner, requests, gcode, panel>>
    /\ result' = [sweep |-> SweepRefinement(capture), v3 |-> V3Refinement(capture),
                  error |-> NoneStr]
    /\ UNCHANGED <<entry, capture, scans, calibration, pos_data, structural_freqs,
                   per_position, candidates, raised>>

NextRefine == SelectAndRefine

SpecRefine == InitRefine /\ [][NextRefine]_vars

\* ------------------------------------------------------------ properties
\* a multi-position call that ran its stages to the end
Analysed == entry = "multi" /\ pc = "done" /\ ~raised /\ Len(scans) >= MIN_SCANS

\* a multi-position call that returned the stage-5 dict
NonFallback == Analysed /\ result.error = NoneStr

\* the scan entries are at pairwise distinct positions, as the docstring asks
DistinctPositions ==
    \A i, j \in 1..Len(scans) : i # j => scans[i].y_pos # scans[j].y_pos

ExpectedAt(i) == InterpolateCalibration(calibration, pos_data[i].y)

\* the extracted peaks of position i inside the calibration window
WindowAt(i) == {pk \in Range(pos_data[i].peaks) : InWindow(pk.f, ExpectedAt(i))}

\* the retained set of position i: the non-structural peaks of the window,
\* or the whole window when there is none
RetainedAt(i) ==
    LET ns == {pk \in WindowAt(i) : pk.f \notin structural_freqs}
    IN  IF ns # {} THEN ns ELSE WindowAt(i)

\* C3: with a calibration, at every position with a peak in the +-12 Hz
\* window the selected frequency (a) lies in the window, (b) is not a
\* structural frequency when the window holds a non-structural peak, and
\* (c) is a peak of the retained set closest to the expectation.  Stated for
\* scans at pairwise distinct positions.
C3_SelectionClaim ==
    (Analysed /\ DistinctPositions /\ calibration # <<>>) =>
        \A i \in 1..Len(pos_data) :
            WindowAt(i) # {} =>
                /\ InWindow(per_position[i].belt_freq, ExpectedAt(i))
                /\ (\E pk \in WindowAt(i) : pk.f \notin structural_freqs)
                        => per_position[i].belt_freq \notin structural_freqs
                /\ \E pk \in RetainedAt(i) :
                        /\ pk.f = per_position[i].belt_freq
                        /\ \A q \in RetainedAt(i) :
                                DistTimesDen(pk.f, ExpectedAt(i))
                                    <= DistTimesDen(q.f, ExpectedAt(i))

AllPeakFreqs == UNION {PeakFreqsAt(pos_data, i) : i \in 1..Len(pos_data)}

\* C4: a peak frequency is in the structural set exactly when a peak within
\* +-4 Hz of it was extracted at a scan with a different position value.
C4_StructuralIffOtherPosition ==
    Analysed =>
        \A f \in AllPeakFreqs :
            f \in structural_freqs <=>
                \E i, j \in 1..Len(pos_data) :
                    /\ pos_data[i].y # pos_data[j].y
                    /\ f \in PeakFreqsAt(pos_data, i)
                    /\ \E g \in PeakFreqsAt(pos_data, j) : Abs(f - g) <= STRUCT_BIN

\* the frequencies extracted as a peak at every scanned position
EverywhereFreqs ==
    {f \in AllPeakFreqs : \A i \in 1..Len(pos_data) : f \in PeakFreqsAt(pos_data, i)}

\* C5 as stated: a peak present at every scanned position is structural and
\* is the selected frequency of no position.  Stated for scans at pairwise
\* distinct positions.
C5_NeverSelectedClaim ==
    (Analysed /\ DistinctPositions) =>
        \A f \in EverywhereFreqs :
            /\ f \in structural_freqs
            /\ \A i \in 1..Len(per_position) : per_position[i].belt_freq # f

\* the peaks of position i in the window that lie more than 4 Hz from every
\* structural frequency
ClearAt(i) ==
    {pk \in WindowAt(i) : \A sf \in structural_freqs : Abs(pk.f - sf) > STRUCT_BIN}

\* the frequency of position i came from the calibration-guided choice
GuidedAt(i) == calibration # <<>> /\ WindowAt(i) # {}

\* C5 amended: a peak present at every scanned position is structural, and
\* it is not the calibration-guided choice of a position whose window holds a
\* peak lying more than 4 Hz from every structural frequency.
C5_ExcludedWhenAlternative ==
    Analysed =>
        \A f \in EverywhereFreqs :
            /\ f \in structural_freqs
            /\ \A i \in 1..Len(per_position) :
                    (GuidedAt(i) /\ ClearAt(i) # {}) => per_position[i].belt_freq # f

\* C5 witness: a peak present everywhere is the closest peak of a window and
\* another peak of that window was selected instead.
C5_Witness ==
    /\ Analysed
    /\ \E f \in EverywhereFreqs : \E i \in 1..Len(per_position) :
            /\ GuidedAt(i) /\ ClearAt(i) # {}
            /\ \E pk \in WindowAt(i) : pk.f = f
            /\ \A q \in WindowAt(i) :
                    DistTimesDen(f, ExpectedAt(i)) <= DistTimesDen(q.f, ExpectedAt(i))
            /\ per_position[i].belt_freq # f

SelectedFreqs == {per_position[i].belt_freq : i \in 1..Len(per_position)} \ {None}

\* largest minus smallest selected frequency
SelectedSpread == SetMax(SelectedFreqs) - SetMin(SelectedFreqs)

ExpectedFreqs == {InterpolateCalibration(calibration, scans[i].y_pos) : i \in 1..Len(scans)}

\* mobility is at least 40% of the expected mobility (calibration given) or
\* at least 10 Hz (no calibration)
MobilityEnough(m) ==
    IF calibration # <<>>
    THEN LET hi == RatMax(ExpectedFreqs)
             lo == RatMin(ExpectedFreqs)
         IN  10 * m * hi[2] * lo[2] >= 4 * (hi[1] * lo[2] - lo[1] * hi[2])
    ELSE m >= 1000

\* C6 as stated: peak_mobility is exactly the spread of the selected
\* frequencies, and classification is belt iff the mobility is enough.
\* Stated for scans at pairwise distinct positions.
C6_ExactMobilityClaim ==
    (NonFallback /\ DistinctPositions) =>
        /\ result.peak_mobility = SelectedSpread
        /\ result.classification =
                IF MobilityEnough(result.peak_mobility) THEN "belt" ELSE "ambiguous"

\* C6 amended: peak_mobility is the spread of the selected frequencies
\* rounded to one decimal, and classification is belt iff that rounded
\* mobility is enough, else ambiguous.
C6_RoundedMobility ==
    NonFallback =>
        /\ result.peak_mobility \in {SelectedSpread - (SelectedSpread % 10),
                                     SelectedSpread - (SelectedSpread % 10) + 10}
        /\ 2 * Abs(result.peak_mobility - SelectedSpread) <= 10
        /\ result.classification =
                IF MobilityEnough(result.peak_mobility) THEN "belt" ELSE "ambiguous"

\* C6 witness: a calibrated result whose rounded mobility differs from the
\* spread and sits exactly on the 40% threshold, classified belt.
C6_Witness ==
    /\ NonFallback
    /\ calibration # <<>>
    /\ result.peak_mobility # SelectedSpread
    /\ result.classification = "belt"
    /\ ~MobilityEnough(result.peak_mobility - 10)

\* C7: the result is structural_only exactly when no scanned position
\* yielded a frequency.  Stated for scans at pairwise distinct positions.
C7_StructuralOnlyIffNoCandidate ==
    (Analysed /\ DistinctPositions) =>
        (result.classification = "structural_only" <=> SelectedFreqs = {})

\* C8: identical selected frequencies at all positions are never classified
\* belt.  Stated for scans at pairwise distinct positions.
C8_ImmobileNeverBelt ==
    (NonFallback /\ DistinctPositions /\ \A i \in 1..Len(per_position) : per_position[i].belt_freq # None
                 /\ Cardinality(SelectedFreqs) = 1)
        => result.classification # "belt"

\* the entries of position_results that may supply the headline: those at
\* Y=100 when there is one, else those nearest to Y=100
HeadlineEntries ==
    LET pr == result.position_results
        at100 == {i \in 1..Len(pr) : pr[i].y_pos = 100}
    IN  IF at100 # {} THEN at100
        ELSE {i \in 1..Len(pr) :
                \A j \in 1..Len(pr) : Abs(pr[i].y_pos - 100) <= Abs(pr[j].y_pos - 100)}

\* C9: the headline frequency, confidence and snr of a successful result are
\* those of the position_results entry at Y=100, else of the nearest entry;
\* the frequency is that entry's frequency rounded to one decimal.
C9_HeadlineFromReference ==
    NonFallback =>
        \E i \in HeadlineEntries :
            LET e == result.position_results[i]
            IN  /\ 2 * Abs(result.frequency - e.frequency) <= 10
                /\ result.frequency % 10 = 0
                /\ result.confidence = e.confidence
                /\ result.snr = e.snr

\* C9 witness: no scan at Y=100, the nearest entry is not the first one, and
\* its frequency, rounded, is the headline and differs from the first entry's.
C9_Witness ==
    /\ NonFallback
    /\ \A i \in 1..Len(result.position_results) : result.position_results[i].y_pos # 100
    /\ 1 \notin HeadlineEntries
    /\ result.position_results[1].frequency # None
    /\ 2 * Abs(result.frequency - result.position_results[1].frequency) > 10
    /\ result.frequency # result.position_results[2].frequency

\* ------------------------------------------------------------ properties of the entry points
\* the minimum number of well-formed records of the entry point
MinRecords ==
    IF entry = "pluck_event" THEN 1000 ELSE IF entry = "pluck" THEN 512 ELSE 500

NumericsNull ==
    /\ result.frequency = None
    /\ result.q_factor = None
    /\ result.snr = None
    /\ result.sample_rate = None

\* a missing file, a file without a parseable record, too few records, a
\* zero median sample interval, an empty band, a flat spectrum
DegenerateFile(cap) ==
    \/ ~cap.exists
    \/ cap.rows < MinRecords
    \/ cap.dt0
    \/ ~cap.band
    \/ cap.flat

DegenerateInput ==
    IF entry = "multi"
    THEN \A i \in 1..Len(scans) : DegenerateFile(scans[i].file)
    ELSE DegenerateFile(capture)

\* C1: no entry point lets an exception escape, and on a degenerate input
\* each entry point returns a result with error set and every numeric field
\* null.
C1_ErrorNeverException ==
    pc = "done" =>
        /\ ~raised
        /\ DegenerateInput => (result.error # NoneStr /\ NumericsNull)

\* the file exists and holds fewer well-formed records than the minimum
ShortBuffer(cap) == cap.exists /\ cap.rows < MinRecords

ShortInput ==
    IF entry = "multi"
    THEN Len(scans) >= 2 /\ \A i \in 1..Len(scans) : ShortBuffer(scans[i].file)
    ELSE ShortBuffer(capture)

\* C2: on a buffer with fewer well-formed records than the minimum, whatever
\* its header and malformed lines, every entry point returns the
\* insufficient-data error and no numeric field.
C2_InsufficientData ==
    (pc = "done" /\ ShortInput) =>
        /\ ~raised
        /\ result.error = "InsufficientData"
        /\ NumericsNull

\* the score the scoring rule gives a candidate
RuleScore(c) ==
    (IF c.q_factor > 100 THEN 3 ELSE IF c.q_factor > 50 THEN 1 ELSE 0)
    + (IF c.snr > 50 THEN 2 ELSE IF c.snr > 30 THEN 1 ELSE 0)
    + (IF c.is_decaying THEN 3 ELSE 0)
    + (IF 8000 <= c.freq /\ c.freq <= 14000 THEN 2 ELSE 0)

PluckSucceeded == entry = "pluck" /\ pc = "done" /\ result.error = NoneStr

\* C10: every candidate's score is the sum of the four scoring terms, an
\* integer in 0..10; the returned candidate is one of them and the confidence
\* is HIGH for its score >= 6, MEDIUM for 4 or 5, LOW otherwise.
C10_ScoreAndConfidence ==
    PluckSucceeded =>
        /\ \A i \in 1..Len(candidates) :
                /\ candidates[i].score = RuleScore(candidates[i])
                /\ candidates[i].score \in 0..10
        /\ \E i \in 1..Len(candidates) :
                /\ candidates[i].freq = result.frequency
                /\ candidates[i].score = result.score
        /\ result.confidence =
                IF result.score >= 6 THEN "HIGH"
                ELSE IF result.score \in {4, 5} THEN "MEDIUM"
                ELSE "LOW"

\* C10 witness: the returned candidate is not the strongest peak, scores
\* exactly 6 with a Q-factor above 10 and is reported HIGH.
C10_Witness ==
    /\ PluckSucceeded
    /\ Len(candidates) >= 2
    /\ result.frequency # capture.cands[1].freq
    /\ result.q_factor > 100
    /\ result.score = 6
    /\ result.confidence = "HIGH"

\* ------------------------------------------------------------ properties of the confidence label
\* the label the mapping assigns to an SNR value
SnrLabel(snr) ==
    IF snr > 150000 THEN "HIGH"
    ELSE IF snr > 70000 THEN "MEDIUM"
    ELSE IF snr > 30000 THEN "LOW"
    ELSE "UNRELIABLE"

\* the (confidence, snr) pairs a finished call reports with a frequency: the
\* result of analyze_sweep_csv, or the position entries and the headline of
\* analyze_multi_position_sweep
ReportedPairs ==
    IF entry = "sweep"
    THEN {<<result.confidence, result.snr>>}
    ELSE {<<result.confidence, result.snr>>}
         \cup {<<result.position_results[i].confidence, result.position_results[i].snr>> :
                    i \in {j \in 1..Len(result.position_results) :
                                result.position_results[j].frequency # None}}

SweepOrMultiSucceeded ==
    /\ entry \in {"sweep", "multi"}
    /\ pc = "done" /\ ~raised
    /\ result.error = NoneStr

\* C11 as stated: every reported confidence is the label of the snr reported
\* next to it.
C11_LabelOfReportedSnr ==
    SweepOrMultiSucceeded =>
        \A pr \in ReportedPairs : pr[1] = SnrLabel(pr[2])

\* the SNR before rounding behind the entry of position i: 20 times the
\* normalised power of the chosen peak, or the SNR of the capture's selected bin
UnroundedSnrAt(i) ==
    IF GuidedAt(i)
    THEN 20 * (CHOOSE pk \in WindowAt(i) : pk.f = per_position[i].belt_freq).p
    ELSE scans[i].file.tm.snr

\* C11 amended: every reported confidence is the label of the SNR before
\* rounding, and the reported snr is that SNR rounded to one decimal; the
\* headline pair is the pair of a position entry.
C11_LabelOfUnroundedSnr ==
    SweepOrMultiSucceeded =>
        IF entry = "sweep"
        THEN /\ result.confidence = SnrLabel(capture.tm.snr)
             /\ result.snr % 1000 = 0
             /\ 2 * Abs(result.snr - capture.tm.snr) <= 1000
        ELSE /\ \A i \in 1..Len(result.position_results) :
                    LET e == result.position_results[i]
                    IN  /\ e.confidence = SnrLabel(UnroundedSnrAt(i))
                        /\ e.snr % 1000 = 0
                        /\ 2 * Abs(e.snr - UnroundedSnrAt(i)) <= 1000
             /\ \E i \in 1..Len(result.position_results) :
                    /\ result.confidence = result.position_results[i].confidence
                    /\ result.snr = result.position_results[i].snr

\* C11 witness: a multi-position result with a calibration-guided entry
\* labelled MEDIUM whose reported snr is 7.0, next to an entry taken from the
\* single-position result.
C11_Witness ==
    /\ SweepOrMultiSucceeded /\ entry = "multi"
    /\ \E i, j \in 1..Len(result.position_results) :
            /\ GuidedAt(i) /\ ~GuidedAt(j)
            /\ result.position_results[i].confidence = "MEDIUM"
            /\ result.position_results[i].snr = 70000

\* ------------------------------------------------------------ properties of the parabolic refinement
\* the sign of a rational
RatSign(r) ==
    IF r[1] * r[2] > 0 THEN 1 ELSE IF r[1] * r[2] < 0 THEN -1 ELSE 0

\* the middle magnitude is at least as large as both neighbours and the three
\* are not all equal
PeakTriple ==
    /\ ~capture.edge
    /\ capture.y2 >= capture.y1 /\ capture.y2 >= capture.y3
    /\ ~(capture.y1 = capture.y2 /\ capture.y2 = capture.y3)

\* C12: on a peak triple the offset is 0 exactly when y1 = y3, else non-zero
\* and directed toward the larger neighbour, and the V3 and the sweep formula
\* give the same offset.
C12_ParabolicOffset ==
    (entry = "parabolic" /\ pc = "done" /\ PeakTriple) =>
        /\ result.v3.kind = "refined" /\ result.sweep.kind = "refined"
        /\ RatSign(result.v3.delta) =
                IF capture.y3 > capture.y1 THEN 1
                ELSE IF capture.y3 < capture.y1 THEN -1 ELSE 0
        /\ result.v3.delta[1] * result.sweep.delta[2]
                = result.sweep.delta[1] * result.v3.delta[2]

\* C12 witness: an asymmetric peak whose right neighbour is the larger one was
\* refined with a positive offset.
C12_Witness ==
    /\ entry = "parabolic" /\ pc = "done" /\ PeakTriple
    /\ capture.y1 > 0 /\ capture.y3 > capture.y1 /\ capture.y2 > capture.y3
    /\ RatSign(result.sweep.delta) = 1

\* ------------------------------------------------------------ properties of the degenerate steps
\* C13: in V3, V2 and the sweep analyzer a zero denominator of the parabolic
\* refinement yields the unrefined bin frequency, fewer than two bins above
\* half power or a zero bandwidth yields Q-factor 0, and an unparseable or
\* zero-norm axis yields the magnitude signal.
C13_DegenerateAbsorbed ==
    pc = "done" =>
        /\ (entry = "parabolic" /\ ~capture.edge
                /\ capture.y1 - 2 * capture.y2 + capture.y3 = 0)
            => /\ result.v3.kind = "unrefined"
               /\ result.v2.kind = "unrefined"
               /\ result.sweep.kind = "unrefined"
        /\ (entry = "q_factor" /\ (capture.sp.above < 2 \/ capture.sp.bandwidth = 0))
            => /\ result.v3[1] = 0
               /\ result.v2[1] = 0
               /\ result.pluck[1] = 0
        /\ (entry = "projection" /\ capture.given
                /\ (~capture.numeric \/ Len(capture.parts) < 2
                        \/ (capture.parts[1] = 0 /\ capture.parts[2] = 0)))
            => result.signal = "magnitude"

\* a call of analyze_belt_frequency_improved that returned
WebDone == entry = "web" /\ pc = "done"

\* the spectrum holds exactly a detected fundamental and a stronger tone at
\* twice its frequency
FundamentalAndStrongerHarmonic ==
    /\ WebDone
    /\ capture.rows >= WEB_MIN_ROWS
    /\ Len(capture.tones) = 2
    /\ capture.tones[2].freq = 2 * capture.tones[1].freq
    /\ capture.tones[2].mag > capture.tones[1].mag
    /\ capture.tones[1] \in Range(DetectedPeaks(capture))

\* C14: when the spectrum holds a fundamental at f and a stronger peak at 2f,
\* the harmonic is discarded and f is the reported frequency.
C14_HarmonicDiscarded ==
    FundamentalAndStrongerHarmonic =>
        /\ result.frequency = capture.tones[1].freq
        /\ capture.tones[2] \notin Range(candidates)

\* C14: when the spectrum holds a fundamental at f and a stronger peak at 2f,
\* f is reported and the harmonic is absent from the valid peaks when 2f lies
\* above the 50-200 Hz slice (the case 105 Hz and 210 Hz); when 2f lies inside
\* the slice the harmonic is kept and is the reported frequency.
C14_HarmonicOutOfBand ==
    FundamentalAndStrongerHarmonic =>
        IF capture.tones[2].freq > 20000
        THEN /\ result.frequency = capture.tones[1].freq
             /\ capture.tones[2] \notin Range(candidates)
        ELSE /\ result.frequency = capture.tones[2].freq
             /\ capture.tones[2] \in Range(candidates)

\* 105 Hz at magnitude 10 and 210 Hz at magnitude 11: 105 Hz is reported
C14_Witness ==
    /\ FundamentalAndStrongerHarmonic
    /\ capture.tones[1] = [freq |-> 10500, mag |-> 10]
    /\ capture.tones[2] = [freq |-> 21000, mag |-> 11]
    /\ result.frequency = 10500
    /\ result.num_peaks = 1

\* within 5 Hz of 0.33, 0.5, 1.5, 2 or 3 times the other frequency
NearRatio(f, g) ==
    \/ Abs(100 * f - 33 * g) < 50000
    \/ Abs(2 * f - g) < 1000
    \/ Abs(2 * f - 3 * g) < 1000
    \/ Abs(f - 2 * g) < 500
    \/ Abs(f - 3 * g) < 500

\* C19: a detected peak is discarded if and only if another detected peak
\* exists such that the first peak's frequency is less than 5 Hz from 0.33, 0.5,
\* 1.5, 2 or 3 times the other's frequency and the first peak's magnitude is
\* below 80% of the other's; every other detected peak is kept.
C19_DiscardRule ==
    (WebDone /\ capture.rows >= WEB_MIN_ROWS) =>
        LET peaks == DetectedPeaks(capture)
        IN  \A i \in 1..Len(peaks) :
                (peaks[i] \notin Range(candidates))
                <=> \E j \in 1..Len(peaks) :
                        /\ j # i
                        /\ NearRatio(peaks[i].freq, peaks[j].freq)
                        /\ 100 * peaks[i].mag < 80 * peaks[j].mag

\* one peak discarded as the 0.33 multiple of a stronger peak that is kept
C19_Witness ==
    /\ WebDone
    /\ capture.rows >= WEB_MIN_ROWS
    /\ \E t, u \in Range(DetectedPeaks(capture)) :
        /\ t.freq = 6000 /\ u.freq = 18000
        /\ t \notin Range(candidates)
        /\ u \in Range(candidates)

\* the calls that have returned so far, in order
CallsReturned ==
    IF pc = "done"
    THEN Append(history, [entry |-> entry, capture |-> capture, scans |-> scans,
                          calibration |-> calibration, result |-> result,
                          raised |-> raised])
    ELSE history

SameArguments(c, d) ==
    /\ c.entry = d.entry
    /\ c.capture = d.capture
    /\ c.calibration = d.calibration
    /\ Len(c.scans) = Len(d.scans)
    /\ \A k \in 1..Len(c.scans) : c.scans[k].file = d.scans[k].file
                                  /\ c.scans[k].y_pos = d.scans[k].y_pos

InProgress == {i \in 1..Len(requests) : requests[i].pc # "returned"}

\* at most one cycle is in progress, and it is the one that holds the lock
OneCycle ==
    /\ Cardinality(InProgress) <= 1
    /\ \A i \in InProgress : tuner.measure_lock = i
    /\ tuner.measuring <=> InProgress # {}

\* this step is the arrival of a request while the lock is held
ArrivesWhileLocked ==
    /\ tuner.measure_lock # 0
    /\ Len(requests') = Len(requests) + 1

\* the new request is turned away without any effect
TurnedAway ==
    /\ requests'[Len(requests')].pc = "returned"
    /\ gcode' = gcode
    /\ tuner'.status = tuner.status
    /\ tuner'.measuring = tuner.measuring
    /\ tuner'.dyn_progress = tuner.dyn_progress
    /\ tuner'.measure_lock = tuner.measure_lock


FullRangeAt(i) == ~GuidedAt(i) /\ pos_data[i].full.error = NoneStr

\* the conditions under which step 4 of analyze_sweep_csv replaces the largest
\* bin by the time-matched one
TimeMatchedAt(i) ==
    /\ scans[i].file.axis.given
    /\ scans[i].file.axis.numeric
    /\ Len(scans[i].file.axis.parts) >= 2
    /\ (scans[i].file.axis.parts[1] # 0 \/ scans[i].file.axis.parts[2] # 0)
    /\ scans[i].file.duration > 500
    /\ scans[i].file.width > 1000
    /\ scans[i].file.scored

\* C17 as stated: at every position where the calibration is absent or yields
\* no candidate, the selected frequency is the time-frequency matched peak of
\* the capture, for every axis setting, duration and band width, never the
\* largest peak of the full-signal spectrum.  Stated for captures that have a
\* positive spectrogram score.
C17_AlwaysTimeMatched ==
    Analysed =>
        \A i \in 1..Len(per_position) :
            (FullRangeAt(i) /\ scans[i].file.scored)
                => per_position[i].belt_freq = scans[i].file.tm.f

\* C17: at every position where the calibration is absent or yields no
\* candidate, the selected frequency is the time-frequency matched peak when
\* the axis projection is active, the capture is longer than 5 s, the band is
\* wider than 10 Hz and some spectrogram score is positive, and the largest
\* peak of the full-signal spectrum otherwise.
C17_TimeMatchedWhenProjected ==
    Analysed =>
        \A i \in 1..Len(per_position) :
            FullRangeAt(i) =>
                per_position[i].belt_freq =
                    IF TimeMatchedAt(i) THEN scans[i].file.tm.f
                    ELSE scans[i].file.raw.f

\* with a calibration that yields no candidate, a position falls back to the
\* time-matched peak although the largest peak of its spectrum is another
C17_Witness ==
    /\ Analysed
    /\ calibration # <<>>
    /\ \E i \in 1..Len(per_position) :
        /\ FullRangeAt(i) /\ TimeMatchedAt(i)
        /\ per_position[i].belt_freq = 11000
        /\ scans[i].file.raw.f = 12500

\* C18: the candidate analyze_pluck returns has the highest score among the
\* retained candidates, and among those that share that score it has the
\* highest SNR.
C18_BestScoreThenSnr ==
    PluckSucceeded =>
        /\ \E i \in 1..Len(candidates) :
                /\ candidates[i].freq = result.frequency
                /\ candidates[i].snr = result.snr
                /\ RuleScore(candidates[i]) = result.score
        /\ \A i \in 1..Len(candidates) :
                /\ RuleScore(candidates[i]) <= result.score
                /\ RuleScore(candidates[i]) = result.score
                        => candidates[i].snr <= result.snr

\* two candidates share the highest score and the one returned has the higher
\* SNR
C18_Witness ==
    /\ PluckSucceeded
    /\ \E i \in 1..Len(candidates) :
        /\ candidates[i].score = result.score
        /\ candidates[i].snr < result.snr

\* the peaks of the capture that analyze_pluck retains as candidates
RetainedRanks ==
    1..(IF Len(capture.cands) < 5 THEN Len(capture.cands) ELSE 5)

\* the candidate made of the peak of rank r, as found in the sorted list
CandidateOfRank(r) ==
    CHOOSE c \in Range(candidates) : c.freq = capture.cands[r].freq

\* the three chunk magnitudes of the peak of rank r are strictly decreasing
ChunksDecrease(r) ==
    /\ capture.cands[r].decay[1] > capture.cands[r].decay[2]
    /\ capture.cands[r].decay[2] > capture.cands[r].decay[3]

\* the score of a candidate without its decay term
ScoreWithoutDecay(c) ==
    (IF c.q_factor > 100 THEN 3 ELSE IF c.q_factor > 50 THEN 1 ELSE 0)
    + (IF c.snr > 50 THEN 2 ELSE IF c.snr > 30 THEN 1 ELSE 0)
    + (IF 8000 <= c.freq /\ c.freq <= 14000 THEN 2 ELSE 0)

\* C20 as stated: every retained candidate (up to five) gets a decay profile,
\* is_decaying is true exactly when chunk1 > chunk2 > chunk3, and a candidate
\* receives the +3 decay score exactly when its own chunk magnitudes are
\* strictly decreasing.
C20_DecayEveryCandidate ==
    PluckSucceeded =>
        /\ Len(candidates) = Cardinality(RetainedRanks)
        /\ \A r \in RetainedRanks :
                LET c == CandidateOfRank(r)
                IN  /\ c.has_decay
                    /\ c.is_decaying <=> ChunksDecrease(r)
                    /\ c.score = ScoreWithoutDecay(c)
                                    + (IF ChunksDecrease(r) THEN 3 ELSE 0)

\* C20: the three strongest retained candidates get a decay profile and the
\* others none; is_decaying is true exactly when the candidate has a profile
\* with chunk1 > chunk2 > chunk3, and a candidate receives the +3 decay score
\* exactly when it is among the three strongest and its own chunk magnitudes
\* are strictly decreasing.
C20_DecayTopThree ==
    PluckSucceeded =>
        /\ Len(candidates) = Cardinality(RetainedRanks)
        /\ \A r \in RetainedRanks :
                LET c == CandidateOfRank(r)
                IN  /\ c.has_decay <=> r <= 3
                    /\ c.is_decaying <=> (r <= 3 /\ ChunksDecrease(r))
                    /\ c.score = ScoreWithoutDecay(c)
                                    + (IF r <= 3 /\ ChunksDecrease(r) THEN 3 ELSE 0)

\* five candidates are retained of six peaks; the strongest decays and gets
\* +3, the fourth decays as well and gets none
C20_Witness ==
    /\ PluckSucceeded
    /\ Len(capture.cands) = 6
    /\ Len(candidates) = 5
    /\ ChunksDecrease(1) /\ CandidateOfRank(1).score = ScoreWithoutDecay(CandidateOfRank(1)) + 3
    /\ ChunksDecrease(4) /\ CandidateOfRank(4).score = ScoreWithoutDecay(CandidateOfRank(4))

\* the bins of the grid whose magnitude exceeds the candidate magnitude
\* divided by sqrt(2)
BinsOverHalfPower ==
    LET p == capture.mags[CHOOSE k \in 1..MaxBins :
                /\ \A j \in 1..MaxBins :
                        Abs(9000 + 50 * (k - 1) - capture.freq)
                            <= Abs(9000 + 50 * (j - 1) - capture.freq)
                /\ \A j \in 1..(k - 1) :
                        Abs(9000 + 50 * (j - 1) - capture.freq)
                            > Abs(9000 + 50 * (k - 1) - capture.freq)]
    IN  {k \in 1..MaxBins : 2 * capture.mags[k] * capture.mags[k] > p * p}

\* the claimed Q-factor as a fraction
ClaimedQ ==
    LET span == 50 * (SetMax(BinsOverHalfPower) - SetMin(BinsOverHalfPower))
    IN  IF Cardinality(BinsOverHalfPower) < 2 \/ span = 0 THEN <<0, 1>>
        ELSE <<capture.freq, span>>

\* C21: the Q-factor is the candidate frequency divided by the span between
\* the lowest and the highest in-band frequency whose magnitude exceeds the
\* candidate magnitude divided by sqrt(2), 0 when fewer than two bins exceed
\* that level or the span is 0, and never negative.
C21_QFactorOfSpan ==
    (entry = "q_spectrum" /\ pc = "done") =>
        /\ result.v3 = ClaimedQ
        /\ result.pluck = ClaimedQ
        /\ result.v3[1] >= 0 /\ result.v3[2] > 0

\* three bins exceed half power, not all adjacent, and the Q-factor is the
\* frequency over the span from the first to the last of them
C21_Witness ==
    /\ entry = "q_spectrum" /\ pc = "done"
    /\ BinsOverHalfPower = {1, 2, 4}
    /\ result.v3 = <<capture.freq, 150>>

\* the buffer with the mean of each axis subtracted, multiplied by the number
\* of samples
CentredPairs ==
    LET n == Len(capture.buf)
        sx == SeqSum([i \in 1..n |-> capture.buf[i][1]])
        sy == SeqSum([i \in 1..n |-> capture.buf[i][2]])
    IN  [i \in 1..n |-> <<n * capture.buf[i][1] - sx, n * capture.buf[i][2] - sy>>]

SignalDone == entry = "signal" /\ pc = "done"

\* the axis is given, parses, and has a non-zero norm
ValidAxis ==
    /\ capture.axis.given /\ capture.axis.numeric
    /\ Len(capture.axis.parts) >= 2
    /\ (capture.axis.parts[1] # 0 \/ capture.axis.parts[2] # 0)

\* C22: the per-axis mean is subtracted before the signal is derived: with a
\* valid non-zero axis the signal is the dot product of the centred pair with
\* the normalised axis, otherwise the Euclidean norm of the centred pair, for
\* every sample, in the sweep loader and in the pluck detector.
C22_CentredBeforeDerived ==
    SignalDone =>
        \A i \in 1..Len(capture.buf) :
            /\ result.pluck_sq[i] = CentredPairs[i][1] * CentredPairs[i][1]
                                    + CentredPairs[i][2] * CentredPairs[i][2]
            /\ IF ValidAxis
               THEN result.sweep[i] = CentredPairs[i][1] * capture.axis.parts[1]
                                      + CentredPairs[i][2] * capture.axis.parts[2]
               ELSE /\ result.sweep[i] >= 0
                    /\ result.sweep[i] * result.sweep[i]
                        = CentredPairs[i][1] * CentredPairs[i][1]
                          + CentredPairs[i][2] * CentredPairs[i][2]

\* the projection and the pluck detector alone do centre first
C22_ProjectionCentred ==
    (SignalDone /\ ValidAxis) =>
        \A i \in 1..Len(capture.buf) :
            result.sweep[i] = CentredPairs[i][1] * capture.axis.parts[1]
                              + CentredPairs[i][2] * capture.axis.parts[2]

\* the window the claim describes for an offset: where it starts and how long
\* it is
ClaimedLength(offset) ==
    IF capture.fs < capture.n - (capture.t + offset) THEN capture.fs
    ELSE capture.n - (capture.t + offset)

WindowAsClaimed(w, offset) ==
    /\ w.error = "InsufficientAfterTrigger" <=> ClaimedLength(offset) < 512
    /\ w.error = NoneStr =>
        /\ w.start = capture.t + offset
        /\ w.length = ClaimedLength(offset)
        /\ 0 <= w.start
        /\ w.start + w.length <= capture.n

\* C23: for every trigger index t in a buffer of N samples the window starts
\* at t + offset (int(0.05 fs) in V3, int(0.02 fs) in V2), has length
\* min(int(fs), samples from the start to N), never leaves the buffer, and the
\* insufficient-data error is returned exactly when that length is below 512,
\* also when t + offset lies at or beyond N.
C23_WindowInsideBuffer ==
    (entry = "window" /\ pc = "done") =>
        /\ WindowAsClaimed(result.v3, (5 * capture.fs) \div 100)
        /\ WindowAsClaimed(result.v2, (2 * capture.fs) \div 100)

\* a trigger on the last sample: the offset leads beyond the buffer and both
\* analyzers return the error
C23_Witness ==
    /\ entry = "window" /\ pc = "done"
    /\ capture.t = capture.n - 1
    /\ capture.t + (2 * capture.fs) \div 100 >= capture.n
    /\ result.v3.error = "InsufficientAfterTrigger"
    /\ result.v2.error = "InsufficientAfterTrigger"

\* a window truncated to exactly 512 samples is analysed
C23_TruncatedWitness ==
    /\ entry = "window" /\ pc = "done"
    /\ result.v3.error = NoneStr
    /\ result.v3.length = 512
    /\ result.v3.length < capture.fs

\* C24: after any sequence of panel actions each belt's saved list holds at
\* most max_measurements = 5 results.
C24_AtMostFiveSaved ==
    entry = "panel" =>
        \A b \in {"A", "B"} : Len(panel.measurements[b]) <= 5

\* the step that saves a sixth result is Save & Exit after a tune-mode
\* measurement on a belt whose list is full
C24_SixthBySaveAndExit ==
    [][(entry = "panel"
        /\ Len(panel.measurements[panel.current_belt]) = 5
        /\ Len(panel'.measurements[panel.current_belt]) = 6)
       => (panel.tune_mode /\ panel.tune_actions /\ panel.last_tune_result # None)]_vars

\* a result dict whose error and frequency agree
ErrorOrFrequency(r) ==
    /\ r.error = NoneStr <=> r.frequency # None
    /\ r.error # NoneStr =>
        /\ r.frequency = None
        /\ r.confidence = NoneStr
        /\ r.q_factor = None
        /\ r.snr = None

\* C25: in every result of analyze_sweep_csv and analyze_multi_position_sweep
\* error is None exactly when frequency is a number, and a result with an
\* error has frequency, confidence, q_factor and snr all None; the
\* single-position fallback of the multi-position analysis included.
C25_ErrorExactlyWithoutFrequency ==
    (entry \in {"sweep", "multi"} /\ pc = "done" /\ ~raised) => ErrorOrFrequency(result)

\* the multi-position analysis fell back to the single-position result of a
\* scan that failed
C25_Witness ==
    /\ entry = "multi" /\ pc = "done" /\ ~raised
    /\ Len(per_position) >= 2
    /\ Report(per_position).belt_freq = None
    /\ Len(result.position_results) >= 2
    /\ result.error # NoneStr

\* a successful single-capture analysis
C25_SuccessWitness ==
    /\ entry = "sweep" /\ pc = "done" /\ ~raised
    /\ result.error = NoneStr
    /\ result.frequency # None

\* the refinement moved the frequency by at most half a bin and left it
\* inside the band
WithinHalfBinAndBand(r) ==
    LET d == r.refinement.delta
        f == RefinedFrequency(r)
    IN  /\ 2 * Abs(d[1]) <= Abs(d[2])
        /\ 9000 * f[2] <= f[1]
        /\ f[1] <= 14000 * f[2]

\* C26: the frequency reported by the sweep analyzer lies within the band and
\* the parabolic refinement moves it by at most half a bin, also when the bin
\* was picked as the maximum of the +-5 Hz refinement window and is no local
\* maximum; the same for the V3 pluck analysis with its 90..140 Hz band.
C26_RefinedWithinHalfBin ==
    (entry = "refine" /\ pc = "done") =>
        /\ WithinHalfBinAndBand(result.sweep)
        /\ WithinHalfBinAndBand(result.v3)

\* the sweep analyzer alone
C26_SweepWithinHalfBin ==
    (entry = "refine" /\ pc = "done") => WithinHalfBinAndBand(result.sweep)

\* the V3 pluck analysis alone
C26_V3WithinHalfBin ==
    (entry = "refine" /\ pc = "done") => WithinHalfBinAndBand(result.v3)

\* without the time-matched estimate the sweep analyzer refines the maximum
\* of the band, and the bound holds
C26_RawMaximumWithinHalfBin ==
    (entry = "refine" /\ pc = "done" /\ ~capture.time_matched) =>
        WithinHalfBinAndBand(result.sweep)

\* the peaks detected in the analysed capture
PeaksDetected ==
    IF capture.rows < WEB_MIN_ROWS THEN <<>> ELSE DetectedPeaks(capture)

\* the detected peaks that no detected peak exceeds
StrongestDetected ==
    {i \in 1..Len(PeaksDetected) :
        \A j \in 1..Len(PeaksDetected) : PeaksDetected[j].mag <= PeaksDetected[i].mag}

\* C27: harmonic filtering never discards the strongest detected peak: the
\* valid peaks are non-empty whenever a peak was detected (the branch for
\* 'all peaks were harmonics' is never taken) and the reported frequency is
\* that of the strongest detected peak.
C27_StrongestPeakKept ==
    (entry = "web" /\ pc = "done" /\ PeaksDetected # <<>>) =>
        /\ candidates # <<>>
        /\ result.error = NoneStr
        /\ \A i \in StrongestDetected :
            \E k \in 1..Len(candidates) : candidates[k] = PeaksDetected[i]
        /\ \E i \in StrongestDetected :
            /\ result.frequency = PeaksDetected[i].freq
            /\ result.magnitude = PeaksDetected[i].mag

\* a harmonic was discarded and the strongest peak was reported
C27_Witness ==
    /\ entry = "web" /\ pc = "done"
    /\ Len(PeaksDetected) >= 2
    /\ Len(candidates) < Len(PeaksDetected)
    /\ \E i \in StrongestDetected : result.frequency = PeaksDetected[i].freq

\* the peak frequency f of position i recurs within 4 Hz at another position
RecursElsewhere(i, f) ==
    \E j \in (1..Len(pos_data)) \ {i} :
        \E g \in PeakFreqsAt(pos_data, j) : Abs(f - g) <= STRUCT_BIN

\* C28: in the calibration-guided selection a window peak is removed from the
\* preferred (non-structural) candidates only if it recurs itself within 4 Hz
\* at another position; a peak that recurs nowhere is never removed because
\* it lies within 4 Hz of a structural peak of its own position.
C28_RemovedOnlyIfRecurring ==
    (Analysed /\ DistinctPositions /\ calibration # <<>>) =>
        \A i \in 1..Len(pos_data) :
            \A pk \in WindowAt(i) :
                pk \notin ClearAt(i) => RecursElsewhere(i, pk.f)

\* what the status endpoint reports agrees with the lock: measuring is true
\* exactly while a handler holds it, and a progress string is present only
\* while the holder is a dynamic scan
FlagsFollowLock ==
    entry = "moonraker" =>
        /\ tuner.measuring <=> tuner.measure_lock # 0
        /\ tuner.measure_lock # 0 =>
                /\ tuner.measure_lock \in InProgress
        /\ \A i \in InProgress : tuner.measure_lock = i
        /\ tuner.dyn_progress # NoProgress =>
                /\ tuner.measure_lock # 0
                /\ requests[tuner.measure_lock].endpoint = "motion_measure_dynamic"

\* request i finishes its cycle in this step
Finishes(i) ==
    /\ i \in InProgress
    /\ requests'[i].pc = "returned"

\* after the step nothing is held or flagged and the belt of request i holds
\* a result or an error record; an exception always leaves an error record
LeftClean(i) ==
    /\ tuner'.measure_lock = 0
    /\ ~tuner'.measuring
    /\ tuner'.dyn_progress = NoProgress
    /\ \/ tuner'.status[requests[i].belt] = GoodResult
       \/ /\ tuner'.status[requests[i].belt].error # NoneStr
          /\ tuner'.status[requests[i].belt].frequency = None
    /\ requests'[i].code = 500 => tuner'.status[requests[i].belt].error = "Exception"

\* a measurement request arrives while no handler holds the lock
ArrivesWhileFree ==
    /\ entry = "moonraker"
    /\ tuner.measure_lock = 0
    /\ Len(requests') = Len(requests) + 1

\* a request for belt A or B (with numeric positions) starts its cycle
Accepted ==
    LET id == Len(requests')
    IN  /\ requests'[id].code \in {0, 400, 500}
        /\ (requests'[id].belt \in {"A", "B"} /\ requests'[id].code # 500) =>
                /\ requests'[id].pc # "returned"
                /\ tuner'.measure_lock = id
                /\ tuner'.measuring

\* C29: the measuring flag is true exactly while a measurement handler holds
\* the lock and dyn_progress is set only while a dynamic scan is in progress;
\* when a handler finishes, with a result or with an exception of the G-code
\* call or the analyzer, the lock is free, measuring is false, dyn_progress is
\* null and the belt's status is the result or an error record; the next
\* measurement request is accepted.
C29_FlagsAndRelease ==
    /\ []FlagsFollowLock
    /\ [][\A i \in 1..Len(requests) : Finishes(i) => LeftClean(i)]_vars
    /\ [][ArrivesWhileFree => Accepted]_vars

\* a dynamic scan ended with an exception, its belt holds the error record,
\* and the request that came next is running its cycle
C29_Witness ==
    /\ entry = "moonraker"
    /\ Len(requests) = 2
    /\ requests[1].endpoint = "motion_measure_dynamic"
    /\ requests[1].pc = "returned" /\ requests[1].code = 500
    /\ requests[1].belt \in {"A", "B"}
    /\ requests[2].pc \in {"excite", "capture", "analyze"}
    /\ tuner.measure_lock = 2
    /\ tuner.measuring
    /\ requests[2].belt # requests[1].belt
    /\ tuner.status[requests[1].belt].error = "Exception"

\* the measurement requests that arrived after the last clear of belt b,
\* name b, and have completed their cycle
CompletedAfterClear(b) ==
    {j \in 1..Len(requests) :
        /\ j > ClearedAt(history, b)
        /\ requests[j].belt = b
        /\ requests[j].pc = "returned"
        /\ requests[j].code \notin {400, 503}}

\* C30 (first half): whatever the state of the measurement lock, a clear
\* request for a belt can be served and leaves that belt's status empty.
C30_ClearAlwaysServed ==
    entry = "moonraker" =>
        \A b \in {"A", "B"} :
            ENABLED (HandleClearLogged /\ tuner'.status[b] = EMPTY_RESULT)

\* C30: a clear request is served at any time, and once it has returned the
\* status of the cleared belt stays the empty result until a measurement
\* request issued after the clear completes: a measurement that was in flight
\* when the clear was served does not overwrite the cleared status.
C30_ClearedUntilLaterRequest ==
    entry = "moonraker" =>
        \A b \in {"A", "B"} :
            (ClearedAt(history, b) # None /\ tuner.status[b] # EMPTY_RESULT)
                => CompletedAfterClear(b) # {}

\* a belt was cleared while its measurement was in flight
C30_ClearedInFlight ==
    /\ entry = "moonraker"
    /\ \E i \in InProgress :
        /\ ClearedAt(history, requests[i].belt) >= i
        /\ tuner.status[requests[i].belt] = EMPTY_RESULT

====
